---- MODULE Spec2Model ----
(***************************************************************************)
(* Timing and judgment engine of the FINPOP rhythm game: the beatmap note  *)
(* model (BeatmapManager), the scorer (Scorer), the input edge detector    *)
(* (InputHandler), the audio clock (AudioEngine) and the session           *)
(* controller (Game).  Times are integers in milliseconds (the source uses *)
(* seconds as floating point numbers: 0.045 s is 45 here).                 *)
(***************************************************************************)
EXTENDS Integers, Sequences, FiniteSets, TLC

VARIABLES
  state,              \* Game.state
  difficulty,         \* Game.difficulty
  calibrationOffset,  \* Game.calibrationOffset
  trackFinished,      \* Game.trackFinished
  pendingStarts,      \* startCountdown calls suspended at an await
  bm,                 \* BeatmapManager: allNotes, notes, bpm, offset, duration
  scorer,             \* Scorer: score, combo, maxCombo, multiplier, ...
  audio,              \* AudioEngine: playing, pos (ctx.currentTime - startTime), ...
  input,              \* InputHandler: held lanes, prevLaneStates, anyKeyPressed, escPressed
  resultsShown,       \* the results overlay is shown (UI.showResults / hideResults)
  applied,            \* history: per active note, the judgments applied for it
  sessions,           \* history: number of sessions started
  probe,              \* a timing delta handed to Scorer.judge and the tier returned
  hits,               \* Scorer on its own: the tiers handed to addHit since reset()
  stats,              \* Scorer on its own: the statistics read from it as it is
  applyLog,           \* BeatmapManager on its own: the levels handed to applyDifficulty
  call,               \* Judging on its own: the last call made, with what it returned
  ticks,              \* history: per frame, the state, the lanes pressed and the press edges
  pausedHolds         \* history: the lanes held since a key press made while PAUSED

vars == <<state, difficulty, calibrationOffset, trackFinished, pendingStarts,
          bm, scorer, audio, input, resultsShown, applied, sessions, probe,
          hits, stats, applyLog, call, ticks, pausedHolds>>

----------------------------------------------------------------------------
(* Bounds of the model *)

\* Clock instants a frame can sample: every FineStep ms up to
\* MaxFineTick * FineStep, then the coarse instants of LateInstants.
MaxFineTick == 9
\* Sessions (completed startCountdown calls) explored.
MaxSessions == 2
\* Input events (keydown, keyup, click) delivered between two frames.
MaxEvents == 2
\* Clock instants a frame may lag behind: the clock read by a frame is at
\* most MaxJump instants past the one read by the frame before.
MaxJump == 2
\* Timing deltas handed to Scorer.judge on its own: -MaxDelta..MaxDelta ms.
MaxDelta == 260
\* Scorer on its own: it is handed judgments of any tier until MaxHits of
\* them have followed the leading run of one tier, and MaxRun + MaxHits at
\* most (the last multiplier breakpoint is a combo of 100).
MaxRun == 100
MaxHits == 3
\* BeatmapManager on its own: charts of up to MaxNotes notes, MaxApplies
\* applyDifficulty calls.
MaxNotes == 3
MaxApplies == 3
\* Judging on its own: presses and sweeps are made until MaxJudged
\* judgments have been scored.
MaxJudged == 4

\* The input handler under single events: frames run until MaxTicks of
\* them have been recorded.
MaxTicks == 4

\* The grid of the clock: a quarter of the MISS window (50 ms), so that the
\* PENDING, DECLINED and MISS edges and the ties between notes fall on it.
FineStep == 200 \div 4
Instants == {FineStep * k : k \in 0..MaxFineTick}
LateInstants == {2150, 2250}
\* Length of the audio track, ms: past the 5 s after which a track that has
\* ended completes the session.
TrackLen == 5050
ClockTargets == {t \in Instants \cup LateInstants \cup {TrackLen} : t <= TrackLen}
\* Lanes that have a key held or released in the model (the code loops over
\* all LaneCount lanes; the others are never pressed).
KeyLanes == {0, 1}

----------------------------------------------------------------------------
(* scorer.js *)

APPROVED == "APPROVED"
PENDING == "PENDING"
DECLINED == "DECLINED"
CHARGEBACK == "CHARGEBACK"
Judgment == {APPROVED, PENDING, DECLINED, CHARGEBACK}

TIMING_APPROVED == 45
TIMING_PENDING == 100
TIMING_DECLINED == 150
TIMING_MISS == 200

SCORE_VALUES(j) ==
  CASE j = APPROVED -> 300
    [] j = PENDING -> 200
    [] j = DECLINED -> 50
    [] j = CHARGEBACK -> 0

Abs(x) == IF x < 0 THEN -x ELSE x

ScorerReset ==
  [score |-> 0, combo |-> 0, maxCombo |-> 0, multiplier |-> 1, totalNotes |-> 0,
   counts |-> [j \in Judgment |-> 0], volume |-> 0]

\* A faulty variant: the windows exclusive of their boundary.
judgeExclusive(timeDiff) ==
  LET abs == Abs(timeDiff) IN
  IF abs < TIMING_APPROVED THEN APPROVED
  ELSE IF abs < TIMING_PENDING THEN PENDING
  ELSE IF abs < TIMING_DECLINED THEN DECLINED
  ELSE CHARGEBACK

judge(timeDiff) ==
  LET abs == Abs(timeDiff) IN
  IF abs <= TIMING_APPROVED THEN APPROVED
  ELSE IF abs <= TIMING_PENDING THEN PENDING
  ELSE IF abs <= TIMING_DECLINED THEN DECLINED
  ELSE CHARGEBACK

\* A faulty variant: the second breakpoint one combo late.
MultiplierTierLate(combo) ==
  IF combo >= 100 THEN 8
  ELSE IF combo >= 50 THEN 4
  ELSE IF combo >= 25 THEN 3
  ELSE IF combo > 10 THEN 2
  ELSE 1

MultiplierTier(combo) ==
  IF combo >= 100 THEN 8
  ELSE IF combo >= 50 THEN 4
  ELSE IF combo >= 25 THEN 3
  ELSE IF combo >= 10 THEN 2
  ELSE 1

\* Faulty variants of addHit.  "comboKept": a CHARGEBACK leaves combo and
\* multiplier as they are; "staleMultiplier": the points use the multiplier
\* of before the combo update; "maxComboLags": maxCombo is compared with
\* the combo of before the update; "uncounted": a CHARGEBACK is not
\* counted in totalNotes; "penalty": a CHARGEBACK costs 50 points.
addHitVariant(s, judgment, v) ==
  LET miss == judgment = CHARGEBACK
      counts1 == [s.counts EXCEPT ![judgment] = @ + 1]
      combo1 == IF miss THEN (IF v = "comboKept" THEN s.combo ELSE 0)
                ELSE s.combo + 1
      maxCombo1 == IF v = "maxComboLags"
                   THEN (IF ~miss /\ s.combo > s.maxCombo THEN s.combo ELSE s.maxCombo)
                   ELSE (IF ~miss /\ combo1 > s.maxCombo THEN combo1 ELSE s.maxCombo)
      multiplier1 == IF miss THEN (IF v = "comboKept" THEN s.multiplier ELSE 1)
                     ELSE MultiplierTier(combo1)
      points == IF miss /\ v = "penalty" THEN 0 - 50
                ELSE SCORE_VALUES(judgment) *
                       (IF v = "staleMultiplier" THEN s.multiplier ELSE multiplier1)
      score1 == s.score + points
      total1 == IF miss /\ v = "uncounted" THEN s.totalNotes ELSE s.totalNotes + 1
  IN [score |-> score1, combo |-> combo1, maxCombo |-> maxCombo1,
      multiplier |-> multiplier1, totalNotes |-> total1,
      counts |-> counts1, volume |-> score1 * 100]

addHitComboKept(s, judgment) == addHitVariant(s, judgment, "comboKept")

addHitStaleMultiplier(s, judgment) == addHitVariant(s, judgment, "staleMultiplier")

addHitMaxComboLags(s, judgment) == addHitVariant(s, judgment, "maxComboLags")

addHitUncounted(s, judgment) == addHitVariant(s, judgment, "uncounted")

addHitPenalty(s, judgment) == addHitVariant(s, judgment, "penalty")

addHit(s, judgment) ==
  LET counts1 == [s.counts EXCEPT ![judgment] = @ + 1]
      combo1 == IF judgment = CHARGEBACK THEN 0 ELSE s.combo + 1
      maxCombo1 == IF judgment # CHARGEBACK /\ combo1 > s.maxCombo
                   THEN combo1 ELSE s.maxCombo
      multiplier1 == IF judgment = CHARGEBACK THEN 1 ELSE MultiplierTier(combo1)
      points == SCORE_VALUES(judgment) * multiplier1
      score1 == s.score + points
  IN [score |-> score1, combo |-> combo1, maxCombo |-> maxCombo1,
      multiplier |-> multiplier1, totalNotes |-> s.totalNotes + 1,
      counts |-> counts1, volume |-> score1 * 100]

\* The rates are quotients of two counts compared with a decimal literal.
\* a / t >= 0.95 is decided here as 100 * a >= 95 * t: the quotient of two
\* integers below 2^53 is rounded to the nearest double, as is the literal,
\* and a / t differs from p / 100 by at least 1 / (100 * t) when it differs
\* at all, so the comparison of the doubles agrees with that of the
\* rationals.
AtLeast(a, t, pct) == 100 * a >= pct * t
MoreThan(a, t, pct) == 100 * a > pct * t

\* Faulty variants: the S band exclusive of its lower bound; the bands of
\* the risk level inclusive of theirs; the approval rate without its guard
\* (0 / 0: not a number).
getGradeExclusive(s) ==
  IF s.totalNotes = 0 THEN "D"
  ELSE LET approved == s.counts[APPROVED]
           hit == s.totalNotes - s.counts[CHARGEBACK]
           t == s.totalNotes
       IN IF MoreThan(approved, t, 95) /\ AtLeast(hit, t, 99) THEN "S"
          ELSE IF AtLeast(approved, t, 85) /\ AtLeast(hit, t, 95) THEN "A"
          ELSE IF AtLeast(approved, t, 70) /\ AtLeast(hit, t, 85) THEN "B"
          ELSE IF AtLeast(hit, t, 70) THEN "C"
          ELSE "D"

getRiskLevelInclusive(s) ==
  LET c == IF s.totalNotes > 0 THEN s.counts[CHARGEBACK] ELSE 0
      t == IF s.totalNotes > 0 THEN s.totalNotes ELSE 1
  IN IF AtLeast(c, t, 30) THEN "CRITICAL"
     ELSE IF AtLeast(c, t, 15) THEN "HIGH"
     ELSE IF AtLeast(c, t, 5) THEN "MEDIUM"
     ELSE "LOW"

getApprovalRateUnguarded(s) ==
  [num |-> (s.totalNotes - s.counts[CHARGEBACK]) * 100, den |-> s.totalNotes]

\* A faulty variant: the C band reaches down to a hit rate of 0.60.
getGradeLenient(s) ==
  IF s.totalNotes = 0 THEN "D"
  ELSE LET approved == s.counts[APPROVED]
           hit == s.totalNotes - s.counts[CHARGEBACK]
           t == s.totalNotes
       IN IF AtLeast(approved, t, 95) /\ AtLeast(hit, t, 99) THEN "S"
          ELSE IF AtLeast(approved, t, 85) /\ AtLeast(hit, t, 95) THEN "A"
          ELSE IF AtLeast(approved, t, 70) /\ AtLeast(hit, t, 85) THEN "B"
          ELSE IF AtLeast(hit, t, 60) THEN "C"
          ELSE "D"

getGrade(s) ==
  IF s.totalNotes = 0 THEN "D"
  ELSE LET approved == s.counts[APPROVED]
           hit == s.totalNotes - s.counts[CHARGEBACK]
           t == s.totalNotes
       IN IF AtLeast(approved, t, 95) /\ AtLeast(hit, t, 99) THEN "S"
          ELSE IF AtLeast(approved, t, 85) /\ AtLeast(hit, t, 95) THEN "A"
          ELSE IF AtLeast(approved, t, 70) /\ AtLeast(hit, t, 85) THEN "B"
          ELSE IF AtLeast(hit, t, 70) THEN "C"
          ELSE "D"

\* The percentage as a fraction num / den (den = 0: not a number).
getApprovalRate(s) ==
  IF s.totalNotes = 0 THEN [num |-> 0, den |-> 1]
  ELSE [num |-> (s.totalNotes - s.counts[CHARGEBACK]) * 100, den |-> s.totalNotes]

\* The level of the object returned (the colour goes with the level).
getRiskLevel(s) ==
  LET c == IF s.totalNotes > 0 THEN s.counts[CHARGEBACK] ELSE 0
      t == IF s.totalNotes > 0 THEN s.totalNotes ELSE 1
  IN IF MoreThan(c, t, 30) THEN "CRITICAL"
     ELSE IF MoreThan(c, t, 15) THEN "HIGH"
     ELSE IF MoreThan(c, t, 5) THEN "MEDIUM"
     ELSE "LOW"

\* getStats(), without the formatted volume.
getStats(s) ==
  [score |-> s.score, maxCombo |-> s.maxCombo, grade |-> getGrade(s),
   approvalRate |-> getApprovalRate(s), riskLevel |-> getRiskLevel(s),
   counts |-> s.counts, totalNotes |-> s.totalNotes]

----------------------------------------------------------------------------
(* beatmap.js (BeatmapManager) *)

Flagged(n, t) ==
  [id |-> n.id, time |-> t, lane |-> n.lane, type |-> n.type,
   duration |-> n.duration, hit |-> FALSE, missed |-> FALSE, judged |-> FALSE]

\* this.notes.length > 0 ? this.notes[this.notes.length - 1].time + 2 : 0
LastPlus(ns, margin) == IF Len(ns) > 0 THEN ns[Len(ns)].time + margin ELSE 0

BeatmapNew ==
  [allNotes |-> <<>>, notes |-> <<>>, bpm |-> 128, offset |-> 0,
   trackName |-> "", duration |-> 0]

\* load(url), the fetch and the parse having succeeded with `data`.  A raw
\* note without a type has type "", without a duration has duration 0; a
\* missing bpm or offset is 0, a missing track "".
load(data) ==
  LET all == [i \in 1..Len(data.notes) |->
                [id |-> i - 1,
                 time |-> data.notes[i].time,
                 lane |-> data.notes[i].lane,
                 type |-> IF data.notes[i].type = "" THEN "tap" ELSE data.notes[i].type,
                 duration |-> data.notes[i].duration]]
      ns == [i \in 1..Len(all) |-> Flagged(all[i], all[i].time)]
  IN [allNotes |-> all,
      notes |-> ns,
      bpm |-> IF data.bpm = 0 THEN 134 ELSE data.bpm,
      offset |-> data.offset,
      trackName |-> IF data.track = "" THEN "unknown" ELSE data.track,
      duration |-> LastPlus(ns, 2000)]

\* generateDefault(), called by load(url) when the fetch or the parse fails:
\* the built-in chart at 134 bpm is pushed to this.notes.  Of its notes the
\* first three are kept here, at bar 1, beats 0, 1 and 2 on lane 0 (a beat
\* is 60000 / 134 ms, a bar 4 beats; whole ms).
DefaultNotes ==
  [i \in 1..3 |->
     [id |-> i - 1, time |-> (4 * 60000 + (i - 1) * 60000) \div 134, lane |-> 0,
      type |-> "tap", duration |-> 0, hit |-> FALSE, missed |-> FALSE,
      judged |-> FALSE]]

generateDefault(b) ==
  [b EXCEPT !.bpm = 134, !.offset = 0, !.trackName = "payments_on_lock",
            !.notes = DefaultNotes,
            !.duration = DefaultNotes[Len(DefaultNotes)].time + 3000]

\* Array.prototype.sort((a, b) => a.time - b.time): stable, by time.
RECURSIVE InsertByTime(_, _)
InsertByTime(sorted, n) ==
  IF sorted = <<>> THEN <<n>>
  ELSE IF sorted[Len(sorted)].time <= n.time THEN Append(sorted, n)
  ELSE Append(InsertByTime(SubSeq(sorted, 1, Len(sorted) - 1), n), sorted[Len(sorted)])

RECURSIVE SortByTime(_)
SortByTime(ns) ==
  IF ns = <<>> THEN <<>>
  ELSE InsertByTime(SortByTime(SubSeq(ns, 1, Len(ns) - 1)), ns[Len(ns)])

\* The EASY filter: allNotes.filter((n, i) => i % 2 === 0), i counted from 0.
RECURSIVE EvenIndexed(_, _)
EvenIndexed(all, i) ==
  IF i > Len(all) THEN <<>>
  ELSE IF (i - 1) % 2 = 0 THEN <<all[i]>> \o EvenIndexed(all, i + 1)
  ELSE EvenIndexed(all, i + 1)

\* A faulty variant: the bounds of the gap inclusive.
ExtraNotesInclusive(all, bpm, i) ==
  LET pairs == {k \in 1..(Len(all) - 1) :
                  LET gap == all[k + 1].time - all[k].time
                  IN gap * bpm * 2 >= 60000 * 3 /\ gap * bpm <= 60000 * 4}
      NoteOf(k) == [id |-> 10000 + (k - 1),
                    time |-> all[k].time + (all[k + 1].time - all[k].time) \div 2,
                    lane |-> (all[k].lane + 2) % 4, type |-> "tap", duration |-> 0]
      Upto(n) == {k \in pairs : k <= n}
  IN [j \in 1..Cardinality(pairs) |->
        NoteOf(CHOOSE k \in pairs : Cardinality(Upto(k)) = j)]

\* The HARD loop: one extra note per adjacent pair whose gap is within
\* (1.5 beats, 4 beats); beat = 60000 / bpm ms, compared by cross
\* multiplication.  gap / 2 is exact for the even gaps of the charts used.
RECURSIVE ExtraNotes(_, _, _)
ExtraNotes(all, bpm, i) ==
  IF i > Len(all) - 1 THEN <<>>
  ELSE LET curr == all[i]
           next == all[i + 1]
           gap == next.time - curr.time
       IN (IF gap * bpm * 2 > 60000 * 3 /\ gap * bpm < 60000 * 4
           THEN <<[id |-> 10000 + (i - 1), time |-> curr.time + gap \div 2,
                   lane |-> (curr.lane + 2) % 4, type |-> "tap", duration |-> 0]>>
           ELSE <<>>) \o ExtraNotes(all, bpm, i + 1)

DifficultyNotes(b, level) ==
  LET base == IF level = "EASY" THEN EvenIndexed(b.allNotes, 1)
              ELSE IF level = "HARD"
                   THEN SortByTime(b.allNotes \o ExtraNotes(b.allNotes, b.bpm, 1))
                   ELSE b.allNotes
  IN [i \in 1..Len(base) |-> Flagged(base[i], base[i].time + b.offset)]

\* A faulty variant: the canonical list is replaced by the notes kept.
applyDifficultyFiltering(b, level) ==
  LET ns == DifficultyNotes(b, level)
      kept == IF level = "EASY" THEN EvenIndexed(b.allNotes, 1) ELSE b.allNotes
  IN [b EXCEPT !.allNotes = kept, !.notes = ns, !.duration = LastPlus(ns, 2000)]

\* A faulty variant: the offset is added to the canonical times as well.
applyDifficultyAccumulating(b, level) ==
  LET ns == DifficultyNotes(b, level)
      shifted == [i \in 1..Len(b.allNotes) |->
                    [b.allNotes[i] EXCEPT !.time = @ + b.offset]]
  IN [b EXCEPT !.allNotes = shifted, !.notes = ns, !.duration = LastPlus(ns, 2000)]

applyDifficulty(b, level) ==
  LET ns == DifficultyNotes(b, level)
  IN [b EXCEPT !.notes = ns, !.duration = LastPlus(ns, 2000)]

\* A faulty variant: the missed flag is left as it is.
resetKeepingMissed(ns) ==
  [i \in 1..Len(ns) |-> [ns[i] EXCEPT !.hit = FALSE, !.judged = FALSE]]

reset(ns) ==
  [i \in 1..Len(ns) |-> [ns[i] EXCEPT !.hit = FALSE, !.missed = FALSE, !.judged = FALSE]]

\* Indices (in list order) of the notes the filter keeps.
RECURSIVE getJudgableNotesFrom(_, _, _, _, _)
getJudgableNotesFrom(ns, i, currentTime, lane, window) ==
  IF i > Len(ns) THEN <<>>
  ELSE (IF /\ ns[i].lane = lane
           /\ ~ns[i].judged
           /\ Abs(ns[i].time - currentTime) <= window
        THEN <<i>> ELSE <<>>)
       \o getJudgableNotesFrom(ns, i + 1, currentTime, lane, window)

\* A faulty variant: the filter without its !n.judged test.
getJudgableNotesAnyFlag(ns, currentTime, lane, window) ==
  SelectSeq([i \in 1..Len(ns) |-> i],
            LAMBDA i : ns[i].lane = lane /\ Abs(ns[i].time - currentTime) <= window)

getJudgableNotes(ns, currentTime, lane, window) ==
  getJudgableNotesFrom(ns, 1, currentTime, lane, window)

\* A faulty variant: a note exactly missWindow late is overdue too.
IsOverdueInclusive(n, currentTime, missWindow) ==
  ~n.judged /\ ~n.missed /\ (currentTime - n.time) >= missWindow

\* The condition under which markMissedNotes marks a note.
IsOverdue(n, currentTime, missWindow) ==
  ~n.judged /\ ~n.missed /\ (currentTime - n.time) > missWindow

\* A faulty variant: the overdue notes are returned but none is flagged.
markMissedNotesUnflagged(ns, currentTime, missWindow) ==
  [notes |-> ns,
   missed |-> SelectSeq([i \in 1..Len(ns) |-> i],
                        LAMBDA i : IsOverdue(ns[i], currentTime, missWindow))]

\* A faulty variant: a swept note is flagged as hit too.
markMissedNotesAsHit(ns, currentTime, missWindow) ==
  [notes |-> [i \in 1..Len(ns) |->
                IF IsOverdue(ns[i], currentTime, missWindow)
                THEN [ns[i] EXCEPT !.missed = TRUE, !.judged = TRUE, !.hit = TRUE]
                ELSE ns[i]],
   missed |-> SelectSeq([i \in 1..Len(ns) |-> i],
                        LAMBDA i : IsOverdue(ns[i], currentTime, missWindow))]

\* A faulty variant: a swept note is flagged missed but not judged.
markMissedNotesUnjudged(ns, currentTime, missWindow) ==
  [notes |-> [i \in 1..Len(ns) |->
                IF IsOverdue(ns[i], currentTime, missWindow)
                THEN [ns[i] EXCEPT !.missed = TRUE]
                ELSE ns[i]],
   missed |-> SelectSeq([i \in 1..Len(ns) |-> i],
                        LAMBDA i : IsOverdue(ns[i], currentTime, missWindow))]

\* markMissedNotes: the notes after the sweep, and the indices it returns.
markMissedNotes(ns, currentTime, missWindow) ==
  [notes |-> [i \in 1..Len(ns) |->
                IF IsOverdue(ns[i], currentTime, missWindow)
                THEN [ns[i] EXCEPT !.missed = TRUE, !.judged = TRUE]
                ELSE ns[i]],
   missed |-> SelectSeq([i \in 1..Len(ns) |-> i],
                        LAMBDA i : IsOverdue(ns[i], currentTime, missWindow))]

isComplete(ns, currentTime) ==
  IF Len(ns) = 0 THEN FALSE
  ELSE currentTime > ns[Len(ns)].time + 2000

----------------------------------------------------------------------------
(* input.js (InputHandler).  held: the lanes with a key down or a touch;   *)
(* prev: the lanes prevLaneStates holds true (none before the first        *)
(* update()).                                                              *)

LaneCount == 4
Lanes == 0..(LaneCount - 1)

InputNew == [held |-> {}, prev |-> {}, anyKeyPressed |-> FALSE, escPressed |-> FALSE]

isLanePressed(inp, lane) == lane \in inp.held

isLaneJustPressed(inp, lane) ==
  LET currentlyPressed == isLanePressed(inp, lane)
      wasPreviouslyPressed == lane \in inp.prev
  IN currentlyPressed /\ ~wasPreviouslyPressed

\* A faulty variant: prevLaneStates is left as it was.
InputUpdateStale(inp) ==
  [held |-> inp.held, prev |-> inp.prev, anyKeyPressed |-> FALSE, escPressed |-> FALSE]

\* InputHandler.update(), run at the end of every frame.
InputUpdate(inp) ==
  [held |-> inp.held,
   prev |-> {l \in Lanes : isLanePressed(inp, l)},
   anyKeyPressed |-> FALSE,
   escPressed |-> FALSE]

\* The keydown listener for a lane key, the keyup listener, the keydown
\* listener for Escape, and a canvas click (or a key bound to no lane).
KeyDown(inp, lane) == [inp EXCEPT !.held = @ \cup {lane}, !.anyKeyPressed = TRUE]
KeyUp(inp, lane) == [inp EXCEPT !.held = @ \ {lane}]
EscapeDown(inp) == [inp EXCEPT !.escPressed = TRUE, !.anyKeyPressed = TRUE]
CanvasClick(inp) == [inp EXCEPT !.anyKeyPressed = TRUE]

Events ==
  {[kind |-> k, lane |-> l] : k \in {"down", "up"}, l \in KeyLanes}
    \cup {[kind |-> "esc", lane |-> 0], [kind |-> "click", lane |-> 0]}

Deliver(inp, e) ==
  CASE e.kind = "down" -> KeyDown(inp, e.lane)
    [] e.kind = "up" -> KeyUp(inp, e.lane)
    [] e.kind = "esc" -> EscapeDown(inp)
    [] e.kind = "click" -> CanvasClick(inp)

RECURSIVE DeliveredIn(_, _)
DeliveredIn(inp, n) ==
  IF n = 0 THEN {inp}
  ELSE LET before == DeliveredIn(inp, n - 1)
       IN before \cup {Deliver(i, e) : i \in before, e \in Events}

\* The input states a frame may find: up to MaxEvents events since the last.
Delivered(inp) == DeliveredIn(inp, MaxEvents)

\* consumeAnyKey(): the handler after the call (the result is the old flag).
ConsumeAnyKey(inp) == [inp EXCEPT !.anyKeyPressed = FALSE]

----------------------------------------------------------------------------
(* audio.js (AudioEngine).  pos is ctx.currentTime - startTime as of the   *)
(* last sample; source is TRUE while a started buffer source has not       *)
(* ended.                                                                  *)

AudioNew ==
  [playing |-> FALSE, pos |-> 0, endedTime |-> 0, suspended |-> FALSE, source |-> FALSE]

getCurrentTime(a) == IF ~a.playing THEN a.endedTime ELSE a.pos

\* The values ctx.currentTime - startTime may have reached when it is read:
\* the clock runs while the context is not suspended.
ClockReadings(a) ==
  IF a.source /\ ~a.suspended
  THEN {t \in ClockTargets :
          /\ t >= a.pos
          /\ Cardinality({u \in ClockTargets : a.pos < u /\ u <= t}) <= MaxJump}
  ELSE {a.pos}

\* The engine as a frame finds it, the clock having run since the last one.
AudioNow(a) == {[a EXCEPT !.pos = t] : t \in ClockReadings(a)}

\* stop(): the source is stopped and dropped.  Stopping a live source makes
\* it fire its ended event, delivered here at once (onended: endedTime =
\* ctx.currentTime - startTime, playing = false).
AudioStop(a) ==
  [a EXCEPT !.playing = FALSE, !.source = FALSE,
            !.endedTime = IF a.source THEN a.pos ELSE a.endedTime]

\* play(0): the track is loaded and the context exists once init() is over.
\* When a source is still live, stop() makes it fire its ended event after
\* the new source has started: its onended handler then clears playing and
\* sets endedTime = ctx.currentTime - startTime, startTime being the new one.
AudioPlay(a) ==
  [playing |-> ~a.source, source |-> TRUE, pos |-> 0, suspended |-> FALSE,
   endedTime |-> IF a.source THEN 0 ELSE a.endedTime]

\* suspendCtx() / resumeCtx(): the context clock stops and runs again.
suspendCtx(a) == [a EXCEPT !.suspended = TRUE]
resumeCtx(a) == [a EXCEPT !.suspended = FALSE]

----------------------------------------------------------------------------
(* game.js (Game): the judgments of one frame.  A core is the part of the  *)
(* program a judgment touches: the active notes and the scorer, with the   *)
(* history kept beside them (applied: the judgments applied per note; log: *)
(* the addHit calls of the frame, in order).                               *)

Core(ns, sc, ap, lg) == [notes |-> ns, scorer |-> sc, applied |-> ap, log |-> lg]

LogEntry(src, lane, note, timeDiff, tier, before, after) ==
  [src |-> src, lane |-> lane, note |-> note, timeDiff |-> timeDiff,
   tier |-> tier, before |-> before, after |-> after]

\* The loop of judgePress over the candidates: closest stays the first
\* candidate of the least diff (closest = 0 is null, closestDiff Infinity).
RECURSIVE ClosestScan(_, _, _, _, _, _)
ClosestScan(ns, candidates, k, currentTime, closest, closestDiff) ==
  IF k > Len(candidates) THEN closest
  ELSE LET diff == Abs(ns[candidates[k]].time - currentTime)
       IN IF closest = 0 \/ diff < closestDiff
          THEN ClosestScan(ns, candidates, k + 1, currentTime, candidates[k], diff)
          ELSE ClosestScan(ns, candidates, k + 1, currentTime, closest, closestDiff)

\* A faulty variant: the closest candidate is scored but not flagged judged.
JudgeClosestUnflagged(c, lane, currentTime, candidates) ==
  LET closest == ClosestScan(c.notes, candidates, 1, currentTime, 0, 0)
      timeDiff == c.notes[closest].time - currentTime
      judgment == judge(timeDiff)
      sc == addHit(c.scorer, judgment)
  IN Core([c.notes EXCEPT ![closest].hit = (judgment # CHARGEBACK)],
          sc,
          [c.applied EXCEPT ![closest] =
              Append(@, [tier |-> judgment, src |-> "press"])],
          Append(c.log, LogEntry("press", lane, closest, timeDiff,
                                 judgment, c.scorer, sc)))

\* A faulty variant: the closest candidate is flagged hit whatever its tier.
JudgeClosestAsHit(c, lane, currentTime, candidates) ==
  LET closest == ClosestScan(c.notes, candidates, 1, currentTime, 0, 0)
      timeDiff == c.notes[closest].time - currentTime
      judgment == judge(timeDiff)
      sc == addHit(c.scorer, judgment)
  IN Core([c.notes EXCEPT ![closest].judged = TRUE, ![closest].hit = TRUE],
          sc,
          [c.applied EXCEPT ![closest] =
              Append(@, [tier |-> judgment, src |-> "press"])],
          Append(c.log, LogEntry("press", lane, closest, timeDiff,
                                 judgment, c.scorer, sc)))

\* judgePress past the empty-candidates return: the closest candidate is
\* classified, flagged and scored.
JudgeClosest(c, lane, currentTime, candidates) ==
  LET closest == ClosestScan(c.notes, candidates, 1, currentTime, 0, 0)
      timeDiff == c.notes[closest].time - currentTime
      judgment == judge(timeDiff)
      sc == addHit(c.scorer, judgment)
  IN Core([c.notes EXCEPT ![closest].judged = TRUE,
                          ![closest].hit = (judgment # CHARGEBACK)],
          sc,
          [c.applied EXCEPT ![closest] =
              Append(@, [tier |-> judgment, src |-> "press"])],
          Append(c.log, LogEntry("press", lane, closest, timeDiff,
                                 judgment, c.scorer, sc)))

\* A faulty variant: a press that finds no candidate is scored CHARGEBACK.
judgePressPenalising(c, lane, currentTime) ==
  LET candidates == getJudgableNotes(c.notes, currentTime, lane, TIMING_MISS)
  IN IF Len(candidates) = 0
     THEN Core(c.notes, addHit(c.scorer, CHARGEBACK), c.applied,
               Append(c.log, LogEntry("press", lane, 0, 0, CHARGEBACK,
                                      c.scorer, addHit(c.scorer, CHARGEBACK))))
     ELSE JudgeClosest(c, lane, currentTime, candidates)

judgePress(c, lane, currentTime) ==
  LET candidates == getJudgableNotes(c.notes, currentTime, lane, TIMING_MISS)
  IN IF Len(candidates) = 0 THEN c
     ELSE JudgeClosest(c, lane, currentTime, candidates)

\* for (lane = 0; lane < 4; lane++) if (isLaneJustPressed(lane)) judgePress(...)
RECURSIVE JudgeLanePresses(_, _, _, _)
JudgeLanePresses(c, inp, lane, currentTime) ==
  IF lane >= LaneCount THEN c
  ELSE JudgeLanePresses(IF isLaneJustPressed(inp, lane)
                        THEN judgePress(c, lane, currentTime) ELSE c,
                        inp, lane + 1, currentTime)

\* A faulty variant: one CHARGEBACK per sweep, whatever the number of
\* notes it returned.
ScoreFirstMissed(c, missed, k, currentTime) ==
  IF Len(missed) = 0 THEN c
  ELSE Core(c.notes, addHit(c.scorer, CHARGEBACK),
            [c.applied EXCEPT ![missed[1]] =
                Append(@, [tier |-> CHARGEBACK, src |-> "sweep"])],
            Append(c.log, LogEntry("sweep", c.notes[missed[1]].lane, missed[1],
                                   c.notes[missed[1]].time - currentTime,
                                   CHARGEBACK, c.scorer, addHit(c.scorer, CHARGEBACK))))

\* for (const note of missedNotes) scorer.addHit(CHARGEBACK, currentTime)
RECURSIVE ScoreMissed(_, _, _, _)
ScoreMissed(c, missed, k, currentTime) ==
  IF k > Len(missed) THEN c
  ELSE LET sc == addHit(c.scorer, CHARGEBACK)
       IN ScoreMissed(
            Core(c.notes, sc,
                 [c.applied EXCEPT ![missed[k]] =
                     Append(@, [tier |-> CHARGEBACK, src |-> "sweep"])],
                 Append(c.log, LogEntry("sweep", c.notes[missed[k]].lane, missed[k],
                                        c.notes[missed[k]].time - currentTime,
                                        CHARGEBACK, c.scorer, sc))),
            missed, k + 1, currentTime)

SweepMissed(c, currentTime) ==
  LET m == markMissedNotes(c.notes, currentTime, TIMING_MISS)
  IN ScoreMissed(Core(m.notes, c.scorer, c.applied, c.log), m.missed, 1, currentTime)

\* Faulty variants of the body of updatePlaying: the sweep ahead of the
\* presses; no sweep; the sweep at a clock value read again after the
\* presses.
SweepBeforePresses(c, inp, currentTime) ==
  JudgeLanePresses(SweepMissed(c, currentTime), inp, 0, currentTime)

PressesWithoutSweep(c, inp, currentTime) ==
  JudgeLanePresses(c, inp, 0, currentTime)

SweepAtLaterSample(c, inp, currentTime) ==
  SweepMissed(JudgeLanePresses(c, inp, 0, currentTime), currentTime + FineStep)

\* updatePlaying past the Escape check: the lane presses, then the sweep,
\* all at the one currentTime sampled on entry.
PlayingJudgments(c, inp, currentTime) ==
  SweepMissed(JudgeLanePresses(c, inp, 0, currentTime), currentTime)

----------------------------------------------------------------------------
(* The beatmap data the loader may be given (times in ms, in file order):  *)
(* two notes of lane 0, 100 ms apart, the later one first in the file.     *)

RawNote(t, l) == [time |-> t, lane |-> l, type |-> "", duration |-> 0]

Charts ==
  { [bpm |-> 120, offset |-> 0, track |-> "",
     notes |-> <<RawNote(200, 0), RawNote(100, 0)>>] }

\* localStorage finpop_offset values, ms.
CalOffsets == {0}

\* Calibration offsets, ms: what localStorage may hold and a calibration
\* may store, where the offset is let vary.
Offsets == {0, 50}

Levels == {"EASY", "NORMAL", "HARD"}

NoProbe == [delta |-> 0, tier |-> "NONE"]

\* No call has been made yet.
NoCall == [op |-> "none"]

\* No statistics have been read since the scorer last changed.
NoStats == [grade |-> "NONE"]

----------------------------------------------------------------------------
(* Construction and Game.init() *)

Init ==
  /\ state = "LOADING"
  /\ difficulty = "NORMAL"
  /\ calibrationOffset \in CalOffsets
  /\ trackFinished = FALSE
  /\ pendingStarts = 0
  /\ bm = BeatmapNew
  /\ scorer = ScorerReset
  /\ audio = AudioNew
  /\ input = InputNew
  /\ resultsShown = FALSE
  /\ applied = <<>>
  /\ sessions = 0
  /\ probe = NoProbe
  /\ hits = <<>>
  /\ stats = NoStats
  /\ applyLog = <<>>
  /\ call = NoCall
  /\ ticks = <<>>
  /\ pausedHolds = {}

\* Game.init(): the beatmap and the track are loaded, the title is shown
\* and the frame loop is started.
GameInit ==
  /\ state = "LOADING"
  /\ \E data \in Charts :
       /\ bm' = load(data)
       /\ applied' = [i \in 1..Len(data.notes) |-> <<>>]
  /\ state' = "TITLE"
  /\ UNCHANGED <<difficulty, calibrationOffset, trackFinished, pendingStarts,
                 scorer, audio, input, resultsShown, sessions, probe, hits, stats,
                 applyLog, call,
                 ticks, pausedHolds>>

----------------------------------------------------------------------------
(* Handlers that run between frames.  The input events delivered since    *)
(* the last frame are applied at the start of the frame that reads them   *)
(* (Delivered): no other handler reads the input state.                   *)

\* The startCountdown calls explored are MaxSessions in all.
CanStart == sessions + pendingStarts < MaxSessions

\* tryStart(): startCountdown() runs up to its first await.
TitleClick ==
  /\ state = "TITLE"
  /\ CanStart
  /\ pendingStarts' = pendingStarts + 1
  /\ UNCHANGED <<state, difficulty, calibrationOffset, trackFinished,
                 bm, scorer, audio, input, resultsShown, applied, sessions, probe, hits, stats,
                 applyLog, call,
                 ticks, pausedHolds>>

setDifficulty(level) ==
  /\ state = "TITLE"
  /\ difficulty' = level
  /\ UNCHANGED <<state, calibrationOffset, trackFinished, pendingStarts,
                 bm, scorer, audio, input, resultsShown, applied, sessions, probe, hits, stats,
                 applyLog, call,
                 ticks, pausedHolds>>

\* replay(), from the button of the results overlay.
replay ==
  /\ resultsShown
  /\ CanStart
  /\ resultsShown' = FALSE
  /\ pendingStarts' = pendingStarts + 1
  /\ UNCHANGED <<state, difficulty, calibrationOffset, trackFinished,
                 bm, scorer, audio, input, applied, sessions, probe, hits, stats,
                 applyLog, call,
                 ticks, pausedHolds>>

\* A faulty variant of startCountdown: the scorer is left as it is.
startCountdownKeepingScore ==
  /\ pendingStarts > 0
  /\ pendingStarts' = pendingStarts - 1
  /\ LET b1 == applyDifficulty(bm, difficulty)
     IN /\ bm' = [b1 EXCEPT !.offset = calibrationOffset, !.notes = reset(b1.notes)]
        /\ applied' = [i \in 1..Len(b1.notes) |-> <<>>]
  /\ state' = "COUNTDOWN"
  /\ trackFinished' = FALSE
  /\ sessions' = sessions + 1
  /\ UNCHANGED <<difficulty, calibrationOffset, scorer, audio, input, resultsShown,
                 probe, hits, stats, applyLog, call,
                 ticks, pausedHolds>>

\* startCountdown() past its awaits.
startCountdown ==
  /\ pendingStarts > 0
  /\ pendingStarts' = pendingStarts - 1
  /\ LET b1 == applyDifficulty(bm, difficulty)
     IN /\ bm' = [b1 EXCEPT !.offset = calibrationOffset, !.notes = reset(b1.notes)]
        /\ applied' = [i \in 1..Len(b1.notes) |-> <<>>]
  /\ state' = "COUNTDOWN"
  /\ scorer' = ScorerReset
  /\ trackFinished' = FALSE
  /\ sessions' = sessions + 1
  /\ UNCHANGED <<difficulty, calibrationOffset, audio, input, resultsShown, probe, hits, stats,
                 applyLog, call,
                 ticks, pausedHolds>>

\* The pause overlay's click handler: resumeGame().
PauseClick ==
  /\ state = "PAUSED"
  /\ state' = "PLAYING"
  /\ audio' = resumeCtx(audio)
  /\ UNCHANGED <<difficulty, calibrationOffset, trackFinished, pendingStarts,
                 bm, scorer, input, resultsShown, applied, sessions, probe, hits, stats,
                 applyLog, call,
                 ticks, pausedHolds>>

\* A faulty variant of source.onended: the time of the end is not recorded.
AudioEndedUnrecorded ==
  /\ audio.source /\ ~audio.suspended
  /\ audio' = [audio EXCEPT !.pos = TrackLen, !.playing = FALSE, !.source = FALSE]
  /\ UNCHANGED <<state, difficulty, calibrationOffset, trackFinished, pendingStarts,
                 bm, scorer, input, resultsShown, applied, sessions, probe, hits, stats,
                 applyLog, call,
                 ticks, pausedHolds>>

\* source.onended, the track having played to its end.
AudioEnded ==
  /\ audio.source /\ ~audio.suspended
  /\ audio' = [audio EXCEPT !.pos = TrackLen, !.endedTime = TrackLen,
                            !.playing = FALSE, !.source = FALSE]
  /\ UNCHANGED <<state, difficulty, calibrationOffset, trackFinished, pendingStarts,
                 bm, scorer, input, resultsShown, applied, sessions, probe, hits, stats,
                 applyLog, call,
                 ticks, pausedHolds>>

----------------------------------------------------------------------------
(* loop(): update(dt), render(dt), input.update() *)

LoopTitle ==
  /\ state = "TITLE"
  /\ \E inp \in Delivered(input) :
       /\ inp.anyKeyPressed => CanStart
       /\ pendingStarts' = IF inp.anyKeyPressed THEN pendingStarts + 1 ELSE pendingStarts
       /\ input' = InputUpdate(ConsumeAnyKey(inp))
  /\ UNCHANGED <<state, difficulty, calibrationOffset, trackFinished,
                 bm, scorer, audio, resultsShown, applied, sessions, probe, hits, stats,
                 applyLog, call,
                 ticks, pausedHolds>>

\* countdownTimer -= dt: the timer is not kept; a frame may be the one at
\* which it runs out.
LoopCountdown ==
  /\ state = "COUNTDOWN"
  /\ \E expired \in BOOLEAN :
       /\ state' = IF expired THEN "PLAYING" ELSE "COUNTDOWN"
       /\ audio' = IF expired THEN AudioPlay(audio) ELSE audio
  /\ \E inp \in Delivered(input) : input' = InputUpdate(inp)
  /\ UNCHANGED <<difficulty, calibrationOffset, trackFinished, pendingStarts,
                 bm, scorer, resultsShown, applied, sessions, probe, hits, stats,
                 applyLog, call,
                 ticks, pausedHolds>>

\* What updatePlaying makes of the game g = [notes, scorer, applied,
\* trackFinished, resultsShown] when the frame finds the input inp and the
\* audio engine a.  currentTime, edges and log are history: the clock value
\* sampled, the lanes with a press edge and the addHit calls made, in order.
updatePlaying(g, inp, a) ==
  LET currentTime == getCurrentTime(a)
      c == PlayingJudgments(Core(g.notes, g.scorer, g.applied, <<>>), inp, currentTime)
      complete == \/ isComplete(c.notes, currentTime)
                  \/ (~a.playing /\ currentTime > 5000)
      finish == complete /\ ~g.trackFinished
  IN IF inp.escPressed
     THEN \* pauseGame(); return
          [state |-> "PAUSED", notes |-> g.notes, scorer |-> g.scorer,
           applied |-> g.applied, trackFinished |-> g.trackFinished,
           resultsShown |-> g.resultsShown, audio |-> suspendCtx(a),
           currentTime |-> currentTime,
           edges |-> {l \in Lanes : isLaneJustPressed(inp, l)}, log |-> <<>>]
     ELSE \* the judgments, then finishTrack() when the track is complete
          [state |-> IF finish THEN "RESULTS" ELSE "PLAYING",
           notes |-> c.notes, scorer |-> c.scorer, applied |-> c.applied,
           trackFinished |-> (g.trackFinished \/ complete),
           resultsShown |-> (g.resultsShown \/ finish),
           audio |-> IF finish THEN AudioStop(a) ELSE a,
           currentTime |-> currentTime,
           edges |-> {l \in Lanes : isLaneJustPressed(inp, l)},
           log |-> c.log]

\* The fields of the game updatePlaying works on.
GameNow ==
  [notes |-> bm.notes, scorer |-> scorer, applied |-> applied,
   trackFinished |-> trackFinished, resultsShown |-> resultsShown]

LoopPlaying ==
  /\ state = "PLAYING"
  /\ \E inp \in Delivered(input), a \in AudioNow(audio) :
       \E f \in {updatePlaying(GameNow, inp, a)} :   \* the one outcome
          /\ state' = f.state
          /\ bm' = [bm EXCEPT !.notes = f.notes]
          /\ scorer' = f.scorer
          /\ applied' = f.applied
          /\ trackFinished' = f.trackFinished
          /\ resultsShown' = f.resultsShown
          /\ audio' = f.audio
          /\ input' = InputUpdate(inp)
  /\ UNCHANGED <<difficulty, calibrationOffset, pendingStarts, sessions, probe, hits, stats,
                 applyLog, call,
                 ticks, pausedHolds>>

\* A faulty variant of updatePaused: the timeout sweep runs while paused.
LoopPausedSweeping ==
  /\ state = "PAUSED"
  /\ \E inp \in Delivered(input) :
       LET resume == inp.escPressed \/ inp.anyKeyPressed
           c == SweepMissed(Core(bm.notes, scorer, applied, <<>>), getCurrentTime(audio))
       IN /\ state' = IF resume THEN "PLAYING" ELSE "PAUSED"
          /\ audio' = IF resume THEN resumeCtx(audio) ELSE audio
          /\ input' = InputUpdate(IF inp.escPressed THEN inp ELSE ConsumeAnyKey(inp))
          /\ bm' = [bm EXCEPT !.notes = c.notes]
          /\ scorer' = c.scorer
          /\ applied' = c.applied
  /\ UNCHANGED <<difficulty, calibrationOffset, trackFinished, pendingStarts,
                 resultsShown, sessions, probe, hits, stats, applyLog, call,
                 ticks, pausedHolds>>

LoopPaused ==
  /\ state = "PAUSED"
  /\ \E inp \in Delivered(input) :
       LET resume == inp.escPressed \/ inp.anyKeyPressed
       IN /\ state' = IF resume THEN "PLAYING" ELSE "PAUSED"
          /\ audio' = IF resume THEN resumeCtx(audio) ELSE audio
          /\ input' = InputUpdate(IF inp.escPressed THEN inp ELSE ConsumeAnyKey(inp))
  /\ UNCHANGED <<difficulty, calibrationOffset, trackFinished, pendingStarts,
                 bm, scorer, resultsShown, applied, sessions, probe, hits, stats,
                 applyLog, call,
                 ticks, pausedHolds>>

\* A faulty variant of the RESULTS tick: finishTrack runs again, without
\* its trackFinished test.
LoopResultsFinishing ==
  /\ state = "RESULTS"
  /\ \E inp \in Delivered(input) : input' = InputUpdate(inp)
  /\ resultsShown' = TRUE
  /\ audio' = AudioStop(audio)
  /\ UNCHANGED <<state, difficulty, calibrationOffset, trackFinished, pendingStarts,
                 bm, scorer, applied, sessions, probe, hits, stats,
                 applyLog, call,
                 ticks, pausedHolds>>

LoopResults ==
  /\ state = "RESULTS"
  /\ \E inp \in Delivered(input) : input' = InputUpdate(inp)
  /\ UNCHANGED <<state, difficulty, calibrationOffset, trackFinished, pendingStarts,
                 bm, scorer, audio, resultsShown, applied, sessions, probe, hits, stats,
                 applyLog, call,
                 ticks, pausedHolds>>

Next ==
  \/ GameInit
  \/ TitleClick
  \/ \E level \in Levels : setDifficulty(level)
  \/ replay
  \/ startCountdown
  \/ PauseClick
  \/ AudioEnded
  \/ LoopTitle
  \/ LoopCountdown
  \/ LoopPlaying
  \/ LoopPaused
  \/ LoopResults

Spec == Init /\ [][Next]_vars

----------------------------------------------------------------------------
(* The game with a calibration offset: localStorage holds any of Offsets   *)
(* at construction, and the calibration screen, opened from the title,     *)
(* may store another.  The metronome and the taps are not kept: a          *)
(* calibration that finishes with three taps or more sets any offset.      *)

CalibrationInit ==
  /\ state = "LOADING"
  /\ difficulty = "NORMAL"
  /\ calibrationOffset \in Offsets
  /\ trackFinished = FALSE
  /\ pendingStarts = 0
  /\ bm = BeatmapNew
  /\ scorer = ScorerReset
  /\ audio = AudioNew
  /\ input = InputNew
  /\ resultsShown = FALSE
  /\ applied = <<>>
  /\ sessions = 0
  /\ probe = NoProbe
  /\ hits = <<>>
  /\ stats = NoStats
  /\ applyLog = <<>>
  /\ call = NoCall
  /\ ticks = <<>>
  /\ pausedHolds = {}

\* The calibrate button of the title screen: audio.init(), audio.resume(),
\* startCalibration().
CalibrateClick ==
  /\ state = "TITLE"
  /\ state' = "CALIBRATION"
  /\ UNCHANGED <<difficulty, calibrationOffset, trackFinished, pendingStarts,
                 bm, scorer, audio, input, resultsShown, applied, sessions, probe,
                 hits, stats, applyLog, call,
                 ticks, pausedHolds>>

\* updateCalibration(dt): the frame may be the one past beat 16
\* (finishCalibration: with three taps or more the offset is their mean,
\* else it is kept), and Escape cancels.
LoopCalibration ==
  /\ state = "CALIBRATION"
  /\ \E inp \in Delivered(input), finish \in BOOLEAN :
       /\ \E o \in Offsets \cup {calibrationOffset} :
            calibrationOffset' = IF finish THEN o ELSE calibrationOffset
       /\ state' = IF finish \/ inp.escPressed THEN "TITLE" ELSE "CALIBRATION"
       /\ input' = InputUpdate(ConsumeAnyKey(inp))
  /\ UNCHANGED <<difficulty, trackFinished, pendingStarts,
                 bm, scorer, audio, resultsShown, applied, sessions, probe,
                 hits, stats, applyLog, call,
                 ticks, pausedHolds>>

CalibrationNext == Next \/ CalibrateClick \/ LoopCalibration

SpecCalibration == CalibrationInit /\ [][CalibrationNext]_vars

----------------------------------------------------------------------------
(* Scorer.judge on its own: any delta of -MaxDelta..MaxDelta ms is handed  *)
(* to it and the tier it returns is kept beside the delta.                 *)

Deltas == (0 - MaxDelta)..MaxDelta

JudgeInit == Init

JudgeCall ==
  /\ \E d \in Deltas : probe' = [delta |-> d, tier |-> judge(d)]
  /\ UNCHANGED <<state, difficulty, calibrationOffset, trackFinished, pendingStarts,
                 bm, scorer, audio, input, resultsShown, applied, sessions,
                 hits, stats, applyLog, call,
                 ticks, pausedHolds>>

JudgeNext == JudgeCall

SpecJudge == JudgeInit /\ [][JudgeNext]_vars

----------------------------------------------------------------------------
(* Scorer on its own: addHit is handed any tier, reset() and the           *)
(* statistics getters are called at any time.  hits is the history of the  *)
(* tiers handed to addHit since the last reset(); stats is what the        *)
(* getters returned, for as long as the scorer has not changed since.      *)

\* The length of the leading run of one tier in js.
LeadingRun(js) ==
  LET other == {i \in 1..Len(js) : js[i] # js[1]}
  IN IF other = {} THEN Len(js)
     ELSE (CHOOSE i \in other : \A k \in other : i <= k) - 1

ScorerInit == Init

ScorerAddHit ==
  /\ Len(hits) < MaxRun + MaxHits
  /\ Len(hits) - LeadingRun(hits) < MaxHits
  /\ \E j \in Judgment :
       /\ scorer' = addHit(scorer, j)
       /\ hits' = Append(hits, j)
  /\ stats' = NoStats
  /\ UNCHANGED <<state, difficulty, calibrationOffset, trackFinished, pendingStarts,
                 bm, audio, input, resultsShown, applied, sessions, probe,
                 applyLog, call,
                 ticks, pausedHolds>>

ScorerResetCall ==
  /\ scorer' = ScorerReset
  /\ hits' = <<>>
  /\ stats' = NoStats
  /\ UNCHANGED <<state, difficulty, calibrationOffset, trackFinished, pendingStarts,
                 bm, audio, input, resultsShown, applied, sessions, probe,
                 applyLog, call,
                 ticks, pausedHolds>>

ScorerGetStats ==
  /\ stats' = getStats(scorer)
  /\ UNCHANGED <<state, difficulty, calibrationOffset, trackFinished, pendingStarts,
                 bm, scorer, audio, input, resultsShown, applied, sessions, probe,
                 hits, applyLog, call,
                 ticks, pausedHolds>>

ScorerNext == ScorerAddHit \/ ScorerResetCall \/ ScorerGetStats

SpecScorer == ScorerInit /\ [][ScorerNext]_vars

----------------------------------------------------------------------------
(* BeatmapManager on its own: a chart is loaded (or, the load failing, the *)
(* built-in one generated), applyDifficulty is handed                      *)
(* any level and the offset is set to any calibration value (Game does so  *)
(* after each applyDifficulty call), in any order.  applyLog is the        *)
(* history of the levels handed to applyDifficulty since the load.         *)

\* Note times (ms) and lanes of the charts, in any file order; at 120 bpm a
\* beat is 500 ms, so a gap of 750 ms is exactly 1.5 beats, one of 2000 ms
\* exactly 4 beats and one of 1250 ms in between.
NoteTimes == {0, 750, 2000}
NoteLanes == {0, 3}
RawNotes == {RawNote(t, l) : t \in NoteTimes, l \in NoteLanes}

SmallCharts ==
  { [bpm |-> 120, offset |-> 0, track |-> "", notes |-> ns] :
      ns \in UNION {[1..n -> RawNotes] : n \in 0..MaxNotes} }

DifficultyInit ==
  /\ state = "LOADING"
  /\ difficulty = "NORMAL"
  /\ calibrationOffset \in CalOffsets
  /\ trackFinished = FALSE
  /\ pendingStarts = 0
  /\ \/ \E data \in SmallCharts : bm = load(data)
     \/ bm = generateDefault(BeatmapNew)
  /\ scorer = ScorerReset
  /\ audio = AudioNew
  /\ input = InputNew
  /\ resultsShown = FALSE
  /\ applied = <<>>
  /\ sessions = 0
  /\ probe = NoProbe
  /\ hits = <<>>
  /\ stats = NoStats
  /\ applyLog = <<>>
  /\ call = NoCall
  /\ ticks = <<>>
  /\ pausedHolds = {}

ApplyDifficulty ==
  /\ Len(applyLog) < MaxApplies
  /\ \E level \in Levels :
       /\ bm' = applyDifficulty(bm, level)
       /\ applyLog' = Append(applyLog, level)
  /\ UNCHANGED <<state, difficulty, calibrationOffset, trackFinished, pendingStarts,
                 scorer, audio, input, resultsShown, applied, sessions, probe,
                 hits, stats, call,
                 ticks, pausedHolds>>

\* this.beatmap.offset = this.calibrationOffset
SetOffset ==
  /\ \E o \in Offsets : bm' = [bm EXCEPT !.offset = o]
  /\ UNCHANGED <<state, difficulty, calibrationOffset, trackFinished, pendingStarts,
                 scorer, audio, input, resultsShown, applied, sessions, probe,
                 hits, stats, applyLog, call,
                 ticks, pausedHolds>>

DifficultyNext == ApplyDifficulty \/ SetOffset

SpecDifficulty == DifficultyInit /\ [][DifficultyNext]_vars

----------------------------------------------------------------------------
(* Judging on its own: on the active notes of a chart loaded and set to a  *)
(* difficulty, judgePress, getJudgableNotes, the sweep of updatePlaying    *)
(* (markMissedNotes, then addHit per note returned) and                    *)
(* BeatmapManager.reset are called in any order, at any of the clock       *)
(* values of QueryTimes.  call is the last call made: its arguments and    *)
(* what it returned (note indices), or the addHit calls it made.           *)

\* Clock values handed to the calls, ms: the notes of Charts are at 100 and
\* 200 ms, so these are 100 and 200 ms (the MISS window) early on them, and
\* 0, 200, 250 and 300 ms late on the first and 100 ms less on the second.
QueryTimes == {0, 100, 300, 350, 400, 450}

NotesInit ==
  /\ state = "LOADING"
  /\ difficulty = "NORMAL"
  /\ calibrationOffset \in CalOffsets
  /\ trackFinished = FALSE
  /\ pendingStarts = 0
  /\ \E data \in Charts, level \in Levels :
       /\ bm = applyDifficulty(load(data), level)
       /\ applied = [i \in 1..Len(bm.notes) |-> <<>>]
  /\ scorer = ScorerReset
  /\ audio = AudioNew
  /\ input = InputNew
  /\ resultsShown = FALSE
  /\ sessions = 0
  /\ probe = NoProbe
  /\ hits = <<>>
  /\ stats = NoStats
  /\ applyLog = <<>>
  /\ call = NoCall
  /\ ticks = <<>>
  /\ pausedHolds = {}

NotesPress ==
  /\ scorer.totalNotes < MaxJudged
  /\ \E lane \in KeyLanes, t \in QueryTimes :
       \E c \in {judgePress(Core(bm.notes, scorer, applied, <<>>), lane, t)} :
          /\ bm' = [bm EXCEPT !.notes = c.notes]
          /\ scorer' = c.scorer
          /\ applied' = c.applied
          /\ call' = [op |-> "judgePress", t |-> t, lane |-> lane, log |-> c.log]
  /\ UNCHANGED <<state, difficulty, calibrationOffset, trackFinished, pendingStarts,
                 audio, input, resultsShown, sessions, probe, hits, stats, applyLog,
                 ticks, pausedHolds>>

NotesJudgable ==
  /\ \E lane \in KeyLanes, t \in QueryTimes :
       call' = [op |-> "getJudgableNotes", t |-> t, lane |-> lane,
                returned |-> getJudgableNotes(bm.notes, t, lane, TIMING_MISS)]
  /\ UNCHANGED <<state, difficulty, calibrationOffset, trackFinished, pendingStarts,
                 bm, scorer, audio, input, resultsShown, applied, sessions, probe,
                 hits, stats, applyLog,
                 ticks, pausedHolds>>

NotesSweep ==
  /\ scorer.totalNotes < MaxJudged
  /\ \E t \in QueryTimes :
       \E c \in {SweepMissed(Core(bm.notes, scorer, applied, <<>>), t)} :
          /\ bm' = [bm EXCEPT !.notes = c.notes]
          /\ scorer' = c.scorer
          /\ applied' = c.applied
          /\ call' = [op |-> "markMissedNotes", t |-> t,
                      returned |-> markMissedNotes(bm.notes, t, TIMING_MISS).missed,
                      log |-> c.log]
  /\ UNCHANGED <<state, difficulty, calibrationOffset, trackFinished, pendingStarts,
                 audio, input, resultsShown, sessions, probe, hits, stats, applyLog,
                 ticks, pausedHolds>>

NotesReset ==
  /\ bm' = [bm EXCEPT !.notes = reset(bm.notes)]
  /\ applied' = [i \in 1..Len(bm.notes) |-> <<>>]
  /\ call' = [op |-> "reset"]
  /\ UNCHANGED <<state, difficulty, calibrationOffset, trackFinished, pendingStarts,
                 scorer, audio, input, resultsShown, sessions, probe, hits, stats,
                 applyLog,
                 ticks, pausedHolds>>

NotesNext == NotesPress \/ NotesJudgable \/ NotesSweep \/ NotesReset

SpecNotes == NotesInit /\ [][NotesNext]_vars

----------------------------------------------------------------------------
(* The game with other beatmap data: two notes of lane 0, one early and    *)
(* one late in the track, the early one first or last in the file; no      *)
(* note at all; and one note so late that the track ends less than 2 s     *)
(* after it.                                                               *)

OrderCharts ==
  { [bpm |-> 120, offset |-> 0, track |-> "",
     notes |-> <<RawNote(100, 0), RawNote(2250, 0)>>],
    [bpm |-> 120, offset |-> 0, track |-> "",
     notes |-> <<RawNote(2250, 0), RawNote(100, 0)>>] }

EndCharts ==
  OrderCharts \cup
  { [bpm |-> 120, offset |-> 0, track |-> "", notes |-> <<>>],
    [bpm |-> 120, offset |-> 0, track |-> "", notes |-> <<RawNote(4000, 0)>>] }

\* Game.init() with this data.
GameInitAnyOrder ==
  /\ state = "LOADING"
  /\ \E data \in EndCharts :
       /\ bm' = load(data)
       /\ applied' = [i \in 1..Len(data.notes) |-> <<>>]
  /\ state' = "TITLE"
  /\ UNCHANGED <<difficulty, calibrationOffset, trackFinished, pendingStarts,
                 scorer, audio, input, resultsShown, sessions, probe, hits, stats,
                 applyLog, call, ticks, pausedHolds>>

AnyOrderNext ==
  \/ GameInitAnyOrder
  \/ TitleClick
  \/ \E level \in Levels : setDifficulty(level)
  \/ replay
  \/ startCountdown
  \/ PauseClick
  \/ AudioEnded
  \/ LoopTitle
  \/ LoopCountdown
  \/ LoopPlaying
  \/ LoopPaused
  \/ LoopResults

SpecAnyOrder == Init /\ [][AnyOrderNext]_vars

\* A frame of PLAYING can finish the track: Escape is not pressed, and the
\* clock it samples makes the track complete (isComplete, or the track has
\* ended past 5 s).  It is the enabling condition of the LoopPlaying steps
\* that end in finishTrack().
CanFinish ==
  /\ state = "PLAYING"
  /\ ~trackFinished
  /\ \E inp \in Delivered(input) : ~inp.escPressed
  /\ \E a \in AudioNow(audio) :
       \/ isComplete(bm.notes, getCurrentTime(a))
       \/ (~a.playing /\ getCurrentTime(a) > 5000)

\* The scheduling.  A startCountdown call suspended at an await resumes
\* (the one step that takes a call from pendingStarts); the frames keep
\* running, so the countdown runs out; a paused game is resumed; the track
\* plays to its end, however often it is paused; and a track that can be
\* finished again and again is finished by a frame (the one step from
\* PLAYING to RESULTS): not every frame of PLAYING is a pause.
Fairness ==
  /\ WF_pendingStarts(pendingStarts > 0 /\ pendingStarts' = pendingStarts - 1)
  /\ WF_vars(LoopCountdown /\ state' = "PLAYING")
  /\ WF_vars((LoopPaused \/ PauseClick) /\ state' = "PLAYING")
  /\ SF_vars(AudioEnded)
  /\ SF_state(CanFinish /\ state' = "RESULTS")

SpecAnyOrderFair == SpecAnyOrder /\ Fairness

----------------------------------------------------------------------------
(* The input handler under single events.  A session is in play with no    *)
(* key held; the keydown and keyup listeners run one event at a time       *)
(* between the frames, and a frame reads the handler as it is.  ticks      *)
(* records, per frame: the state it found, the lanes pressed, the lanes    *)
(* for which isLaneJustPressed was true, the lanes handed to judgePress    *)
(* and the lanes held since a key press made while PAUSED.                 *)

\* The lane whose keys are pressed here: that of the notes of Charts (the
\* edge of a lane depends on that lane's keys alone).
InputLanes == {0}

InputInit ==
  /\ state = "PLAYING"
  /\ difficulty = "NORMAL"
  /\ calibrationOffset \in CalOffsets
  /\ trackFinished = FALSE
  /\ pendingStarts = 0
  /\ \E data \in Charts :
       LET b1 == applyDifficulty(load(data), difficulty)
       IN /\ bm = [b1 EXCEPT !.offset = calibrationOffset, !.notes = reset(b1.notes)]
          /\ applied = [i \in 1..Len(b1.notes) |-> <<>>]
  /\ scorer = ScorerReset
  /\ audio = AudioPlay(AudioNew)
  /\ input = InputNew
  /\ resultsShown = FALSE
  /\ sessions = 1
  /\ probe = NoProbe
  /\ hits = <<>>
  /\ stats = NoStats
  /\ applyLog = <<>>
  /\ call = NoCall
  /\ ticks = <<>>
  /\ pausedHolds = {}

\* The keydown listener, for a lane key (a repeat of a held key included).
InputKeyDown(lane) ==
  /\ input' = KeyDown(input, lane)
  /\ pausedHolds' = IF state = "PAUSED" /\ ~isLanePressed(input, lane)
                    THEN pausedHolds \cup {lane} ELSE pausedHolds
  /\ UNCHANGED <<state, difficulty, calibrationOffset, trackFinished, pendingStarts,
                 bm, scorer, audio, resultsShown, applied, sessions, probe, hits,
                 stats, applyLog, call, ticks>>

\* The keyup listener, for a lane key.
InputKeyUp(lane) ==
  /\ isLanePressed(input, lane)
  /\ input' = KeyUp(input, lane)
  /\ pausedHolds' = pausedHolds \ {lane}
  /\ UNCHANGED <<state, difficulty, calibrationOffset, trackFinished, pendingStarts,
                 bm, scorer, audio, resultsShown, applied, sessions, probe, hits,
                 stats, applyLog, call, ticks>>

\* The keydown listener, for Escape.
InputEscapeDown ==
  /\ ~input.escPressed
  /\ input' = EscapeDown(input)
  /\ UNCHANGED <<state, difficulty, calibrationOffset, trackFinished, pendingStarts,
                 bm, scorer, audio, resultsShown, applied, sessions, probe, hits,
                 stats, applyLog, call, ticks, pausedHolds>>

\* What a frame records of the handler it finds.
TickRecord(judged) ==
  [state |-> state,
   pressed |-> {l \in Lanes : isLanePressed(input, l)},
   just |-> {l \in Lanes : isLaneJustPressed(input, l)},
   judged |-> judged,
   pausedHolds |-> pausedHolds]

\* loop() in PLAYING: updatePlaying, then input.update().
InputLoopPlaying ==
  /\ state = "PLAYING"
  /\ Len(ticks) < MaxTicks
  /\ \E a \in AudioNow(audio) :
       \E f \in {updatePlaying(GameNow, input, a)} :
          /\ state' = f.state
          /\ bm' = [bm EXCEPT !.notes = f.notes]
          /\ scorer' = f.scorer
          /\ applied' = f.applied
          /\ trackFinished' = f.trackFinished
          /\ resultsShown' = f.resultsShown
          /\ audio' = f.audio
          /\ ticks' = Append(ticks, TickRecord(IF input.escPressed THEN {} ELSE f.edges))
  /\ input' = InputUpdate(input)
  /\ UNCHANGED <<difficulty, calibrationOffset, pendingStarts, sessions, probe, hits,
                 stats, applyLog, call, pausedHolds>>

\* loop() in PAUSED: updatePaused, then input.update().
InputLoopPaused ==
  /\ state = "PAUSED"
  /\ Len(ticks) < MaxTicks
  /\ LET resume == input.escPressed \/ input.anyKeyPressed
     IN /\ state' = IF resume THEN "PLAYING" ELSE "PAUSED"
        /\ audio' = IF resume THEN resumeCtx(audio) ELSE audio
  /\ input' = InputUpdate(IF input.escPressed THEN input ELSE ConsumeAnyKey(input))
  /\ ticks' = Append(ticks, TickRecord({}))
  /\ UNCHANGED <<difficulty, calibrationOffset, trackFinished, pendingStarts,
                 bm, scorer, resultsShown, applied, sessions, probe, hits, stats,
                 applyLog, call, pausedHolds>>

\* loop() in RESULTS: input.update() only.
InputLoopResults ==
  /\ state = "RESULTS"
  /\ Len(ticks) < MaxTicks
  /\ input' = InputUpdate(input)
  /\ ticks' = Append(ticks, TickRecord({}))
  /\ UNCHANGED <<state, difficulty, calibrationOffset, trackFinished, pendingStarts,
                 bm, scorer, audio, resultsShown, applied, sessions, probe, hits,
                 stats, applyLog, call, pausedHolds>>

InputNext ==
  \/ \E lane \in InputLanes : InputKeyDown(lane)
  \/ \E lane \in InputLanes : InputKeyUp(lane)
  \/ InputEscapeDown
  \/ PauseClick
  \/ AudioEnded
  \/ InputLoopPlaying
  \/ InputLoopPaused
  \/ InputLoopResults

SpecInput == InputInit /\ [][InputNext]_vars

----------------------------------------------------------------------------
(* Properties.  Frames is the set of outcomes updatePlaying can have in    *)
(* the current state: one per input state and clock value the next frame   *)
(* may find.  LoopPlaying takes exactly one of them.  updatePlaying does   *)
(* not read anyKeyPressed, so the inputs are taken with the flag cleared.  *)

FrameInputs == {ConsumeAnyKey(inp) : inp \in Delivered(input)}

Frames ==
  IF state = "PLAYING"
  THEN {updatePlaying(GameNow, inp, a) : inp \in FrameInputs, a \in AudioNow(audio)}
  ELSE {}

\* The frames that run the judgments (Escape not pressed).
JudgingFrames == {f \in Frames : f.state # "PAUSED"}

NoteIds == 1..Len(bm.notes)

RECURSIVE TotalApplied(_)
TotalApplied(i) == IF i = 0 THEN 0 ELSE Len(applied[i]) + TotalApplied(i - 1)

Entries(f, src) == {k \in 1..Len(f.log) : f.log[k].src = src}

\* The candidates judgePress finds on a lane at the start of a frame.
CandidatesAt(lane, t) == getJudgableNotes(bm.notes, t, lane, TIMING_MISS)

\* C1: in a session every active note causes at most one addHit call, and
\* the scorer has counted exactly the judgments applied to the notes: a
\* judged note is selected again neither by judgePress nor by the sweep.
C1_AtMostOneHitPerNote ==
  /\ \A i \in DOMAIN applied : Len(applied[i]) <= 1
  /\ scorer.totalNotes = TotalApplied(Len(applied))

\* C1 witness: a note already judged lies within the MISS window of a press
\* edge on its lane, and the frame leaves it alone.
C1_JudgedNotePressedAgain ==
  \E f \in JudgingFrames : \E i \in NoteIds :
    /\ bm.notes[i].judged
    /\ Len(applied[i]) = 1
    /\ bm.notes[i].lane \in f.edges
    /\ Abs(bm.notes[i].time - f.currentTime) <= TIMING_MISS
    /\ f.applied[i] = applied[i]

\* C2: within one updatePlaying tick every judgment of a lane press is
\* applied to the scorer before any CHARGEBACK of that tick's sweep.
C2_PressesBeforeSweep ==
  \A f \in Frames : \A j \in Entries(f, "sweep") : \A k \in Entries(f, "press") : k < j

\* C2 witness: a tick in which a press is judged and another note times out.
C2_PressAndSweepInOneTick ==
  \E f \in Frames : Entries(f, "press") # {} /\ Entries(f, "sweep") # {}

Overdue(ns, t) == {i \in 1..Len(ns) : ~ns[i].judged /\ t - ns[i].time > TIMING_MISS}

\* C3 as stated: at the end of every tick processed in state PLAYING no
\* active note is unjudged with currentTime - time > MISS.
C3_EveryPlayingTickSweeps ==
  \A f \in Frames : Overdue(f.notes, f.currentTime) = {}

\* C3 amended: every tick processed in state PLAYING on which Escape was
\* not pressed runs the sweep at the tick's clock value, so at its end no
\* active note is unjudged with currentTime - time > MISS; the tick on
\* which Escape was pressed pauses and changes neither notes nor scorer.
C3_EveryJudgingTickSweeps ==
  \A f \in Frames :
    IF f.state = "PAUSED"
    THEN f.notes = bm.notes /\ f.scorer = scorer
    ELSE Overdue(f.notes, f.currentTime) = {}

\* C3 witness: a tick without Escape finds a note overdue and sweeps it.
C3_OverdueNoteSwept ==
  \E f \in JudgingFrames :
    /\ Overdue(bm.notes, f.currentTime) # {}
    /\ Entries(f, "sweep") # {}
    /\ Overdue(f.notes, f.currentTime) = {}

\* The notes a frame's sweep marked.
SweptBy(f) == {i \in NoteIds : ~bm.notes[i].missed /\ f.notes[i].missed}

\* C4: every note the sweep returns gets exactly one addHit(CHARGEBACK) in
\* the same tick, whose effect is: counts[CHARGEBACK] and totalNotes up by
\* one, combo 0, multiplier 1, score unchanged (that of a press classified
\* CHARGEBACK).
C4_SweptNoteScoredOnce ==
  \A f \in Frames :
    /\ \A i \in SweptBy(f) :
         Cardinality({k \in Entries(f, "sweep") : f.log[k].note = i}) = 1
    /\ \A k \in Entries(f, "sweep") :
         LET e == f.log[k]
         IN /\ e.note \in SweptBy(f)
            /\ e.tier = CHARGEBACK
            /\ e.after = addHit(e.before, CHARGEBACK)
            /\ e.after.counts[CHARGEBACK] = e.before.counts[CHARGEBACK] + 1
            /\ \A j \in Judgment \ {CHARGEBACK} : e.after.counts[j] = e.before.counts[j]
            /\ e.after.totalNotes = e.before.totalNotes + 1
            /\ e.after.combo = 0
            /\ e.after.multiplier = 1
            /\ e.after.score = e.before.score
            /\ e.after.maxCombo = e.before.maxCombo

\* C4 witness: a sweep scores a timed-out note while a combo and a score
\* are standing.
C4_SweepBreaksCombo ==
  \E f \in Frames : \E k \in Entries(f, "sweep") :
    /\ f.log[k].before.combo > 0
    /\ f.log[k].before.score > 0
    /\ f.log[k].after.combo = 0

\* C5: in one updatePlaying tick a single clock value serves the candidate
\* query, the choice of the nearest note and the classification of every
\* press, and the sweep: each press judged a candidate of that value with
\* the tier of its deviation from it, and the sweep took exactly the notes
\* overdue at it.
C5_OneClockValuePerTick ==
  \A f \in JudgingFrames :
    /\ \A k \in Entries(f, "press") :
         LET e == f.log[k]
         IN /\ e.timeDiff = bm.notes[e.note].time - f.currentTime
            /\ Abs(e.timeDiff) <= TIMING_MISS
            /\ e.tier = judge(e.timeDiff)
            /\ \A i \in NoteIds :
                 (bm.notes[i].lane = e.lane /\ ~bm.notes[i].judged)
                   => Abs(e.timeDiff) <= Abs(bm.notes[i].time - f.currentTime)
    /\ \A k \in Entries(f, "sweep") :
         f.log[k].timeDiff = bm.notes[f.log[k].note].time - f.currentTime
    /\ SweptBy(f) = Overdue(bm.notes, f.currentTime)
    /\ \A i \in SweptBy(f) : f.currentTime - bm.notes[i].time > TIMING_MISS

\* C5 witness: one tick judges a press off the beat and sweeps a note.
C5_OffBeatPressAndSweep ==
  \E f \in JudgingFrames :
    /\ \E k \in Entries(f, "press") : f.log[k].timeDiff # 0 /\ f.log[k].tier # CHARGEBACK
    /\ SweptBy(f) # {}

\* C6 as stated: the note a press judges is the nearest candidate, and of
\* two candidates at equal absolute deviation the one with the earlier
\* time, whatever the order of the notes in the beatmap data.
C6_TieGoesToEarlierNote ==
  \A f \in JudgingFrames : \A k \in Entries(f, "press") :
    LET e == f.log[k]
        chosen == bm.notes[e.note]
    IN \A i \in NoteIds :
         (/\ bm.notes[i].lane = e.lane
          /\ ~bm.notes[i].judged
          /\ Abs(bm.notes[i].time - f.currentTime) <= TIMING_MISS)
           => \/ Abs(chosen.time - f.currentTime) < Abs(bm.notes[i].time - f.currentTime)
              \/ /\ Abs(chosen.time - f.currentTime) = Abs(bm.notes[i].time - f.currentTime)
                 /\ chosen.time <= bm.notes[i].time

\* C7: a lane press for which getJudgableNotes returns no candidate is a
\* no-op: judgePress leaves the scorer and every note's flags as they were,
\* and the tick scores nothing for that lane.
C7_PressWithoutCandidateIsNoOp ==
  \A f \in JudgingFrames : \A lane \in f.edges :
    Len(CandidatesAt(lane, f.currentTime)) = 0
      => /\ judgePress(Core(bm.notes, scorer, applied, <<>>), lane, f.currentTime)
              = Core(bm.notes, scorer, applied, <<>>)
         /\ \A k \in Entries(f, "press") : f.log[k].lane # lane
         /\ \A i \in NoteIds :
              bm.notes[i].lane = lane /\ i \notin SweptBy(f) => f.notes[i] = bm.notes[i]
         /\ (f.log = <<>> => f.scorer = scorer /\ f.notes = bm.notes)

\* C7 witness: mid-session, with a note still to come, the only press of a
\* tick finds no candidate and the tick changes nothing.
C7_EmptyPress ==
  \E f \in JudgingFrames :
    /\ f.edges # {}
    /\ \A lane \in f.edges : Len(CandidatesAt(lane, f.currentTime)) = 0
    /\ \E i \in NoteIds : ~bm.notes[i].judged
    /\ scorer.totalNotes > 0
    /\ f.scorer = scorer /\ f.notes = bm.notes

\* C8: a judged note has hit = true exactly when the judgment applied to
\* the scorer for it is not CHARGEBACK; a note judged by the sweep has
\* hit = false.
C8_HitIffNotChargeback ==
  \A i \in NoteIds :
    /\ bm.notes[i].judged <=> Len(applied[i]) > 0
    /\ bm.notes[i].judged => (bm.notes[i].hit <=> applied[i][1].tier # CHARGEBACK)
    /\ ~bm.notes[i].judged => ~bm.notes[i].hit
    /\ bm.notes[i].missed => (~bm.notes[i].hit /\ applied[i][1].src = "sweep")

\* C8 witness: one note hit, one judged CHARGEBACK by a press far off the
\* beat or by the sweep.
C8_HitAndChargeback ==
  /\ \E i \in NoteIds : bm.notes[i].hit /\ applied[i][1].tier # CHARGEBACK
  /\ \E i \in NoteIds : bm.notes[i].judged /\ ~bm.notes[i].hit /\ ~bm.notes[i].missed
  /\ state = "PLAYING"

\* C9: judge is inclusive on the better side: |delta| <= 45 ms APPROVED,
\* <= 100 PENDING, <= 150 DECLINED, beyond CHARGEBACK; it depends on
\* |delta| alone; 45 ms is APPROVED and 46 ms PENDING.
C9_JudgeBoundaries ==
  probe.tier # "NONE" =>
    LET d == IF probe.delta < 0 THEN 0 - probe.delta ELSE probe.delta
    IN /\ (d <= 45) => probe.tier = APPROVED
       /\ (45 < d /\ d <= 100) => probe.tier = PENDING
       /\ (100 < d /\ d <= 150) => probe.tier = DECLINED
       /\ (150 < d) => probe.tier = CHARGEBACK
       /\ probe.tier = judge(0 - probe.delta)
       /\ judge(45) = APPROVED /\ judge(46) = PENDING

\* C9 witness: an early press exactly on the DECLINED boundary.
C9_EarlyBoundaryDelta ==
  probe.delta = 0 - 150 /\ probe.tier = DECLINED

\* C10: a second markMissedNotes at the same currentTime, nothing having
\* changed in between, returns no note and changes none; over a session no
\* note is returned by the sweep twice.
C10_SweepIdempotent ==
  /\ state = "PLAYING" =>
       \A a \in AudioNow(audio) :
         LET first == markMissedNotes(bm.notes, getCurrentTime(a), TIMING_MISS)
             second == markMissedNotes(first.notes, getCurrentTime(a), TIMING_MISS)
         IN second.missed = <<>> /\ second.notes = first.notes
  /\ \A i \in DOMAIN applied :
       Cardinality({k \in 1..Len(applied[i]) : applied[i][k].src = "sweep"}) <= 1

\* C10 witness: a sweep that returns two notes, run again at once.
C10_SecondSweepEmpty ==
  \E f \in JudgingFrames :
    LET first == markMissedNotes(bm.notes, f.currentTime, TIMING_MISS)
    IN /\ Len(first.missed) = 2
       /\ markMissedNotes(first.notes, f.currentTime, TIMING_MISS).missed = <<>>
       /\ Cardinality(SweptBy(f)) = 2

----------------------------------------------------------------------------
(* Properties of the scorer on its own (SpecScorer). *)

\* The addHit call of a step, if the step is one: the tier handed to it.
AddHitOf(j) == hits' = Append(hits, j)

\* The number of tiers of js after its last CHARGEBACK (all of them if it
\* has none).
SinceChargeback(js) ==
  LET miss == {i \in 1..Len(js) : js[i] = CHARGEBACK}
  IN Cardinality({i \in 1..Len(js) : \A k \in miss : k < i})

\* C11: addHit with CHARGEBACK sets combo to 0 and multiplier to 1, with any
\* other tier it adds exactly 1 to combo; so combo is always the number of
\* judgments applied since the last CHARGEBACK (since reset() if none).
C11_ComboCountsSinceChargeback ==
  /\ [](scorer.combo = SinceChargeback(hits))
  /\ [][/\ AddHitOf(CHARGEBACK) => scorer'.combo = 0 /\ scorer'.multiplier = 1
        /\ \A j \in Judgment \ {CHARGEBACK} :
             AddHitOf(j) => scorer'.combo = scorer.combo + 1]_vars

\* C11 witness: a combo of 12 broken by a CHARGEBACK and rebuilt to 2.
C11_ComboRebuilt ==
  /\ Len(hits) = 15
  /\ hits[13] = CHARGEBACK
  /\ \A i \in 1..12 : hits[i] # CHARGEBACK
  /\ scorer.combo = 2
  /\ scorer.maxCombo = 12

\* C12: the points addHit adds are the base value of the tier (300, 200, 50,
\* 0) times the multiplier as it is after the combo update of the same
\* call: four APPROVED from reset give combo 4 and multiplier 1, the tenth
\* APPROVED in a row is itself scored twice (3300 after ten), a CHARGEBACK
\* adds nothing.
C12_PointsUseUpdatedMultiplier ==
  /\ [](/\ hits = [i \in 1..4 |-> APPROVED] =>
            scorer.combo = 4 /\ scorer.multiplier = 1
        /\ hits = [i \in 1..10 |-> APPROVED] =>
            scorer.multiplier = 2 /\ scorer.score = 3300)
  /\ [][/\ AddHitOf(APPROVED) => scorer'.score = scorer.score + 300 * scorer'.multiplier
        /\ AddHitOf(PENDING) => scorer'.score = scorer.score + 200 * scorer'.multiplier
        /\ AddHitOf(DECLINED) => scorer'.score = scorer.score + 50 * scorer'.multiplier
        /\ AddHitOf(CHARGEBACK) => scorer'.score = scorer.score]_vars

\* C12 witness: ten APPROVED from reset, 9 * 300 + 600 points.
C12_TenthApprovedDoubled ==
  /\ hits = [i \in 1..10 |-> APPROVED]
  /\ scorer.score = 3300
  /\ scorer.combo = 10

\* C13: after reset() and after any sequence of addHit calls the multiplier
\* is 8 for a combo of 100 or more, 4 from 50, 3 from 25, 2 from 10, else 1.
C13_MultiplierFollowsCombo ==
  /\ scorer.combo >= 100 => scorer.multiplier = 8
  /\ scorer.combo >= 50 /\ scorer.combo < 100 => scorer.multiplier = 4
  /\ scorer.combo >= 25 /\ scorer.combo < 50 => scorer.multiplier = 3
  /\ scorer.combo >= 10 /\ scorer.combo < 25 => scorer.multiplier = 2
  /\ scorer.combo < 10 => scorer.multiplier = 1

\* C13 witness: the hundredth judgment of a combo, of mixed tiers.
C13_ComboOfHundred ==
  /\ scorer.combo = 100
  /\ scorer.multiplier = 8
  /\ hits[99] = PENDING /\ hits[100] = DECLINED

\* The longest stretch of js without a CHARGEBACK: the largest value combo
\* has had while js was handed to addHit.
LongestCombo(js) ==
  LET ok(i) == js[i] # CHARGEBACK
      starts == {i \in 1..Len(js) : ok(i) /\ (i = 1 \/ ~ok(i - 1))}
      ends == {i \in 1..Len(js) : ok(i) /\ (i = Len(js) \/ ~ok(i + 1))}
      EndOf(a) == CHOOSE e \in ends : e >= a /\ \A x \in ends : x >= a => e <= x
      runs == {EndOf(a) - a + 1 : a \in starts}
  IN IF runs = {} THEN 0 ELSE CHOOSE m \in runs : \A x \in runs : x <= m

\* C14: maxCombo never decreases across addHit calls, is never below combo,
\* and is the largest value combo has had since the last reset().
C14_MaxComboIsLargestCombo ==
  /\ [](/\ scorer.maxCombo >= scorer.combo
        /\ scorer.maxCombo = LongestCombo(hits))
  /\ [][\A j \in Judgment : AddHitOf(j) => scorer'.maxCombo >= scorer.maxCombo]_vars

\* C14 witness: a combo of 30 lost, the next one at 1.
C14_MaxComboAboveCombo ==
  /\ scorer.maxCombo = 30
  /\ scorer.combo = 1
  /\ Len(hits) = 32

\* C15: counts always holds the four tiers, each with a count of 0 or more,
\* and the four counts add up to totalNotes; an addHit call adds 1 to the
\* count of its tier, leaves the other three alone and adds 1 to totalNotes.
C15_CountsAddUpToTotalNotes ==
  /\ [](/\ DOMAIN scorer.counts = {"APPROVED", "PENDING", "DECLINED", "CHARGEBACK"}
        /\ \A j \in DOMAIN scorer.counts : scorer.counts[j] \in Nat
        /\ scorer.counts["APPROVED"] + scorer.counts["PENDING"]
             + scorer.counts["DECLINED"] + scorer.counts["CHARGEBACK"]
           = scorer.totalNotes)
  /\ [][\A j \in Judgment :
          AddHitOf(j) =>
            /\ scorer'.counts[j] = scorer.counts[j] + 1
            /\ \A o \in Judgment \ {j} : scorer'.counts[o] = scorer.counts[o]
            /\ scorer'.totalNotes = scorer.totalNotes + 1]_vars

\* C15 witness: one judgment of each tier.
C15_OneOfEachTier ==
  /\ \A j \in Judgment : scorer.counts[j] = 1
  /\ scorer.totalNotes = 4
  /\ hits[4] = CHARGEBACK

\* C16: score is an integer of 0 or more that no addHit call lowers (a
\* CHARGEBACK leaves it as it is), and volume is score * 100 after every
\* addHit call.
C16_ScoreNeverDecreases ==
  /\ [](scorer.score \in Nat)
  /\ [][\A j \in Judgment :
          AddHitOf(j) =>
            /\ scorer'.score >= scorer.score
            /\ j = CHARGEBACK => scorer'.score = scorer.score
            /\ scorer'.volume = scorer'.score * 100]_vars

\* C16 witness: a CHARGEBACK after ten APPROVED, the 3300 points kept.
C16_ChargebackKeepsScore ==
  /\ Len(hits) = 11
  /\ hits[11] = CHARGEBACK
  /\ scorer.score = 3300
  /\ scorer.volume = 330000

\* C17: with no note judged (totalNotes 0) the statistics are defined, no
\* quotient by 0 being taken: the grade is D, the approval rate 0 and the
\* risk level LOW.
C17_NoNotesJudgedStatistics ==
  (stats.grade # "NONE" /\ stats.totalNotes = 0) =>
    /\ stats.grade = "D"
    /\ stats.approvalRate.den # 0
    /\ stats.approvalRate.num = 0
    /\ stats.riskLevel = "LOW"

\* C17 witness: the statistics read from a scorer that has judged nothing.
C17_StatisticsOfFreshScorer ==
  /\ hits = <<>>
  /\ scorer.totalNotes = 0
  /\ stats.grade = "D"
  /\ stats.totalNotes = 0

\* C18: with totalNotes above 0, getGrade returns the first band that
\* matches: S for an approved rate of 0.95 or more and a hit rate of 0.99 or
\* more, A for 0.85 and 0.95, B for 0.70 and 0.85, C for a hit rate of 0.70
\* or more, else D (approved rate: counts[APPROVED] / totalNotes; hit rate:
\* (totalNotes - counts[CHARGEBACK]) / totalNotes).
C18_GradeBands ==
  (stats.grade # "NONE" /\ stats.totalNotes > 0) =>
    LET t == stats.totalNotes
        a == stats.counts["APPROVED"]
        h == stats.totalNotes - stats.counts["CHARGEBACK"]
        isS == 100 * a >= 95 * t /\ 100 * h >= 99 * t
        isA == 100 * a >= 85 * t /\ 100 * h >= 95 * t
        isB == 100 * a >= 70 * t /\ 100 * h >= 85 * t
        isC == 100 * h >= 70 * t
    IN /\ isS => stats.grade = "S"
       /\ ~isS /\ isA => stats.grade = "A"
       /\ ~isS /\ ~isA /\ isB => stats.grade = "B"
       /\ ~isS /\ ~isA /\ ~isB /\ isC => stats.grade = "C"
       /\ ~isS /\ ~isA /\ ~isB /\ ~isC => stats.grade = "D"

\* C18 witness: 19 APPROVED and one PENDING, an approved rate of exactly
\* 0.95 graded S.
C18_GradeSOnTheBoundary ==
  /\ stats.grade = "S"
  /\ stats.totalNotes = 20
  /\ stats.counts["APPROVED"] = 19
  /\ stats.counts["PENDING"] = 1

\* C19: getRiskLevel returns CRITICAL for a chargeback rate
\* (counts[CHARGEBACK] / totalNotes) above 0.30, else HIGH above 0.15, else
\* MEDIUM above 0.05, else LOW; a rate of exactly 0.30, 0.15 or 0.05 falls
\* in the lower band.
C19_RiskBands ==
  (stats.grade # "NONE" /\ stats.totalNotes > 0) =>
    LET t == stats.totalNotes
        c == stats.counts["CHARGEBACK"]
    IN /\ 100 * c > 30 * t => stats.riskLevel = "CRITICAL"
       /\ 100 * c <= 30 * t /\ 100 * c > 15 * t => stats.riskLevel = "HIGH"
       /\ 100 * c <= 15 * t /\ 100 * c > 5 * t => stats.riskLevel = "MEDIUM"
       /\ 100 * c <= 5 * t => stats.riskLevel = "LOW"

\* C19 witness: three CHARGEBACK in ten judgments, a rate of exactly 0.30
\* rated HIGH.
C19_RiskHighOnTheBoundary ==
  /\ stats.grade # "NONE"
  /\ stats.riskLevel = "HIGH"
  /\ stats.totalNotes = 10
  /\ stats.counts["CHARGEBACK"] = 3

----------------------------------------------------------------------------
(* Properties of the beatmap on its own (SpecDifficulty). *)

\* The applyDifficulty call of a step, if the step is one: the level handed
\* to it.
ApplyOf(level) == applyLog' = Append(applyLog, level)

\* Note n of the active list is canonical note c, `offset` later, unjudged.
ActiveCopyOf(n, c, offset) ==
  /\ n.id = c.id
  /\ n.lane = c.lane
  /\ n.type = c.type
  /\ n.duration = c.duration
  /\ n.time = c.time + offset
  /\ ~n.hit /\ ~n.missed /\ ~n.judged

\* C20: applyDifficulty('EASY') on a canonical list of N notes makes the
\* active list the ceil(N / 2) notes of even index (0, 2, 4, ...), in
\* canonical order; applyDifficulty('NORMAL') after it makes the active
\* list all N canonical notes, with their ids and lanes and with the offset
\* added to their times: EASY loses nothing of the canonical list.
C20_EasyKeepsCanonicalNotes ==
  [][/\ \A level \in Levels : ApplyOf(level) => bm'.allNotes = bm.allNotes
     /\ ApplyOf("EASY") =>
          /\ Len(bm'.notes) = (Len(bm.allNotes) + 1) \div 2
          /\ \A k \in 1..Len(bm'.notes) :
               ActiveCopyOf(bm'.notes[k], bm.allNotes[2 * k - 1], bm.offset)
     /\ (ApplyOf("NORMAL") /\ applyLog # <<>> /\ applyLog[Len(applyLog)] = "EASY") =>
          /\ Len(bm'.notes) = Len(bm.allNotes)
          /\ \A i \in 1..Len(bm.allNotes) :
               ActiveCopyOf(bm'.notes[i], bm.allNotes[i], bm.offset)]_vars

\* C20 witness: three notes out of time order, cut to two by EASY and back
\* to three by NORMAL, 50 ms later than in the file.
C20_NormalAfterEasy ==
  /\ applyLog = <<"EASY", "NORMAL">>
  /\ Len(bm.allNotes) = 3
  /\ Len(bm.notes) = 3
  /\ bm.offset = 50
  /\ bm.allNotes[1].time = 750
  /\ bm.allNotes[2].time = 0 /\ bm.allNotes[3].time = 2000
  /\ bm.notes[2].time = 50 /\ bm.notes[3].time = 2050

\* Canonical pair (i, i + 1) of b is more than 1.5 and less than 4 beats
\* apart (a beat is 60000 / bpm ms).
GapWithinBeats(b, i) ==
  LET gap == b.allNotes[i + 1].time - b.allNotes[i].time
  IN 2 * gap * b.bpm > 3 * 60000 /\ gap * b.bpm < 4 * 60000

OffsetAddedOnce(b, ns) ==
  \A k \in 1..Len(ns) :
    ns[k].id < Len(b.allNotes) => ns[k].time = b.allNotes[ns[k].id + 1].time + b.offset

\* C22: applying the level applied last again, the offset being the one
\* the active times were made with, leaves every active time as it is; after
\* any applyDifficulty call each active time is the canonical time plus the
\* offset, added once; applyDifficulty never changes the canonical list.
C22_ReapplyingKeepsTimes ==
  [][\A level \in Levels :
       ApplyOf(level) =>
         /\ bm'.allNotes = bm.allNotes
         /\ OffsetAddedOnce(bm, bm'.notes)
         /\ (applyLog # <<>> /\ applyLog[Len(applyLog)] = level
               /\ OffsetAddedOnce(bm, bm.notes)) =>
              /\ Len(bm'.notes) = Len(bm.notes)
              /\ \A k \in 1..Len(bm.notes) : bm'.notes[k].time = bm.notes[k].time]_vars

\* C22 witness: HARD applied three times with an offset of 50 ms, the note
\* added at the midpoint still at 1375 + 50 ms.
C22_HardThreeTimes ==
  /\ applyLog = <<"HARD", "HARD", "HARD">>
  /\ bm.offset = 50
  /\ Len(bm.allNotes) = 2
  /\ Len(bm.notes) = 3
  /\ bm.notes[1].time = 800 /\ bm.notes[2].time = 1425 /\ bm.notes[3].time = 2050

\* C23: after a load from note data in any time order and an
\* applyDifficulty call at any level, the active notes are in
\* non-decreasing time order, so the last one has the greatest time.
C23_ActiveNotesSorted ==
  applyLog # <<>> =>
    /\ \A k \in 1..(Len(bm.notes) - 1) : bm.notes[k].time <= bm.notes[k + 1].time
    /\ \A k \in 1..Len(bm.notes) : bm.notes[k].time <= bm.notes[Len(bm.notes)].time

\* C24: the load having failed and the built-in chart having been
\* generated, a session started at any difficulty (startCountdown applies
\* the difficulty) plays against that chart: the active list is not empty
\* and is made of the generated notes.
C24_FallbackChartPlayed ==
  (bm.trackName = "payments_on_lock" /\ applyLog # <<>>) =>
    /\ bm.notes # <<>>
    /\ \A k \in 1..Len(bm.notes) :
         \E i \in 1..Len(DefaultNotes) :
           /\ bm.notes[k].lane = DefaultNotes[i].lane
           /\ bm.notes[k].time = DefaultNotes[i].time + bm.offset

----------------------------------------------------------------------------
(* Properties of judging on its own (SpecNotes). *)

\* C25: BeatmapManager.reset clears judged, hit and missed on every active
\* note, whatever was judged before, and changes nothing else: the times,
\* lanes, ids and order of the notes and the scorer stay as they are; a
\* second call changes nothing more.
C25_ResetClearsFlagsOnly ==
  [][call'.op = "reset" =>
       /\ Len(bm'.notes) = Len(bm.notes)
       /\ \A i \in 1..Len(bm.notes) :
            /\ ~bm'.notes[i].judged /\ ~bm'.notes[i].hit /\ ~bm'.notes[i].missed
            /\ bm'.notes[i].id = bm.notes[i].id
            /\ bm'.notes[i].time = bm.notes[i].time
            /\ bm'.notes[i].lane = bm.notes[i].lane
            /\ bm'.notes[i].type = bm.notes[i].type
            /\ bm'.notes[i].duration = bm.notes[i].duration
       /\ bm'.allNotes = bm.allNotes /\ bm'.offset = bm.offset
       /\ bm'.duration = bm.duration /\ bm'.bpm = bm.bpm
       /\ scorer' = scorer
       /\ reset(bm'.notes) = bm'.notes]_vars

\* C25 witness: a reset after one note was hit and the other swept: the
\* flags are clear, the scorer keeps its two judgments.
C25_ResetAfterHitAndSweep ==
  /\ call.op = "reset"
  /\ Len(bm.notes) = 2
  /\ \A i \in 1..2 : ~bm.notes[i].judged /\ ~bm.notes[i].hit /\ ~bm.notes[i].missed
  /\ scorer.totalNotes = 2
  /\ scorer.counts[CHARGEBACK] = 1
  /\ scorer.score = 300
  /\ scorer.maxCombo = 1

----------------------------------------------------------------------------
(* Properties of the sessions (Spec). *)

\* C26: whenever a session starts (the state is COUNTDOWN, on the first
\* start or on a replay), the scorer has score, combo, maxCombo and
\* totalNotes 0, multiplier 1 and all counts 0, and every active note has
\* judged, hit and missed false, whatever was judged in a session before.
C26_SessionStartsClean ==
  state = "COUNTDOWN" =>
    /\ scorer.score = 0 /\ scorer.combo = 0 /\ scorer.maxCombo = 0
    /\ scorer.totalNotes = 0 /\ scorer.multiplier = 1
    /\ \A j \in Judgment : scorer.counts[j] = 0
    /\ \A i \in 1..Len(bm.notes) :
         ~bm.notes[i].judged /\ ~bm.notes[i].hit /\ ~bm.notes[i].missed

\* C26 witness: the countdown of a second session, the first one having
\* run past its last note (all its notes were judged).
C26_SecondSessionCountdown ==
  /\ state = "COUNTDOWN"
  /\ sessions = 2
  /\ audio.endedTime >= 2150
  /\ scorer.totalNotes = 0
  /\ Len(bm.notes) = 2

\* C28: from the state becoming PLAYING until it becomes RESULTS the active
\* list is not replaced (no applyDifficulty call is made: sessions counts
\* the startCountdown calls that made one) nor reordered, and no note
\* changes its time, lane or id, whatever the order in which user events
\* and the startCountdown calls still awaiting the audio come.
C28_ActiveListFixedWhilePlaying ==
  [][(state = "PLAYING" \/ state = "PAUSED") =>
       /\ sessions' = sessions
       /\ Len(bm'.notes) = Len(bm.notes)
       /\ \A i \in 1..Len(bm.notes) :
            /\ bm'.notes[i].id = bm.notes[i].id
            /\ bm'.notes[i].time = bm.notes[i].time
            /\ bm'.notes[i].lane = bm.notes[i].lane]_vars

----------------------------------------------------------------------------
(* Properties of the sessions with a calibration offset (SpecCalibration). *)

\* C27: at every session start each active note is at its canonical time
\* plus the calibration offset the game holds then, in the first session
\* after the load and in the first one after a calibration changed the
\* offset as well.
C27_SessionUsesCalibrationOffset ==
  state = "COUNTDOWN" =>
    \A k \in 1..Len(bm.notes) :
      bm.notes[k].id < Len(bm.allNotes) =>
        bm.notes[k].time = bm.allNotes[bm.notes[k].id + 1].time + calibrationOffset

----------------------------------------------------------------------------
(* Properties of the presses and the sweep on their own (SpecNotes).       *)

\* C29: a press whose closest candidate is more than DECLINED and at most
\* MISS away, early or late, is classified CHARGEBACK; the note is then
\* judged with hit and missed both false and the combo is 0; and no press
\* or sweep made later judges a note in that condition again.
C29_OutsideDeclinedConsumesNote ==
  [][/\ (call'.op = "judgePress" /\ Len(call'.log) = 1) =>
          \A e \in {call'.log[1]} :
             (Abs(e.timeDiff) > TIMING_DECLINED /\ Abs(e.timeDiff) <= TIMING_MISS) =>
                /\ e.tier = CHARGEBACK
                /\ bm'.notes[e.note].judged
                /\ ~bm'.notes[e.note].hit
                /\ ~bm'.notes[e.note].missed
                /\ scorer'.combo = 0
     /\ call'.op \in {"judgePress", "markMissedNotes"} =>
          \A i \in 1..Len(bm.notes) :
             (bm.notes[i].judged /\ ~bm.notes[i].hit /\ ~bm.notes[i].missed) =>
                /\ bm'.notes[i] = bm.notes[i]
                /\ applied'[i] = applied[i]
                /\ \A k \in 1..Len(call'.log) : call'.log[k].note # i
    ]_vars

\* C29 witness: after a press that built a combo, a press exactly MISS early
\* on the remaining note was scored CHARGEBACK and the note is consumed.
C29_PressAtMissWindowEarly ==
  /\ call.op = "judgePress"
  /\ Len(call.log) = 1
  /\ call.log[1].timeDiff = TIMING_MISS
  /\ call.log[1].tier = CHARGEBACK
  /\ call.log[1].before.combo >= 1
  /\ scorer.combo = 0
  /\ bm.notes[call.log[1].note].judged
  /\ ~bm.notes[call.log[1].note].hit
  /\ Len(applied[call.log[1].note]) = 1

\* C30: markMissedNotes(t, MISS) marks and returns exactly the unjudged
\* notes with t - time > MISS and leaves every other note as it was;
\* getJudgableNotes(t, lane, MISS) returns exactly the unjudged notes of the
\* lane with |time - t| <= MISS; so at one clock value no note is both a
\* candidate of a press and marked by the sweep, and an unjudged note
\* exactly MISS late is a candidate of a press and not marked by the sweep.
C30_SweepAndPressWindowsDisjoint ==
  /\ [](\A t \in QueryTimes : \A i \in 1..Len(bm.notes) :
          LET pressed == getJudgableNotes(bm.notes, t, bm.notes[i].lane, TIMING_MISS)
              swept == markMissedNotes(bm.notes, t, TIMING_MISS).missed
          IN /\ ~(\E k \in 1..Len(pressed) : \E m \in 1..Len(swept) :
                     pressed[k] = i /\ swept[m] = i)
             /\ (~bm.notes[i].judged /\ t - bm.notes[i].time = TIMING_MISS) =>
                   /\ \E k \in 1..Len(pressed) : pressed[k] = i
                   /\ \A m \in 1..Len(swept) : swept[m] # i)
  /\ [][/\ call'.op = "markMissedNotes" =>
             /\ {call'.returned[k] : k \in 1..Len(call'.returned)} =
                   {i \in 1..Len(bm.notes) :
                      ~bm.notes[i].judged /\ call'.t - bm.notes[i].time > TIMING_MISS}
             /\ \A k, m \in 1..Len(call'.returned) :
                   call'.returned[k] = call'.returned[m] => k = m
             /\ Len(bm'.notes) = Len(bm.notes)
             /\ \A i \in 1..Len(bm.notes) :
                   IF \E k \in 1..Len(call'.returned) : call'.returned[k] = i
                   THEN bm'.notes[i] =
                          [bm.notes[i] EXCEPT !.missed = TRUE, !.judged = TRUE]
                   ELSE bm'.notes[i] = bm.notes[i]
        /\ call'.op = "getJudgableNotes" =>
             /\ {call'.returned[k] : k \in 1..Len(call'.returned)} =
                   {i \in 1..Len(bm.notes) :
                      /\ ~bm.notes[i].judged
                      /\ bm.notes[i].lane = call'.lane
                      /\ Abs(bm.notes[i].time - call'.t) <= TIMING_MISS}
             /\ \A k, m \in 1..Len(call'.returned) :
                   call'.returned[k] = call'.returned[m] => k = m
       ]_vars

\* C30 witness: a sweep has marked and returned a note more than MISS late
\* while another note, exactly MISS late at that clock value, was left
\* unjudged and is still a candidate of a press.
C30_SweepLeavesNoteAtMissWindow ==
  /\ call.op = "markMissedNotes"
  /\ Len(call.returned) = 1
  /\ bm.notes[call.returned[1]].missed
  /\ call.t - bm.notes[call.returned[1]].time > TIMING_MISS
  /\ \E i \in 1..Len(bm.notes) :
       /\ ~bm.notes[i].judged
       /\ call.t - bm.notes[i].time = TIMING_MISS
       /\ \E k \in 1..Len(getJudgableNotes(bm.notes, call.t, bm.notes[i].lane, TIMING_MISS)) :
            getJudgableNotes(bm.notes, call.t, bm.notes[i].lane, TIMING_MISS)[k] = i

----------------------------------------------------------------------------
(* Properties of the flags and the counters over the sessions (Spec).      *)

\* C33: in every reachable state no note is both hit and missed, a hit
\* note is judged and a missed note is judged; a judged note is in exactly
\* one of three conditions: hit by a press, charged back by a press (hit
\* and missed both false), or timed out (missed).
C33_FlagsConsistent ==
  \A i \in 1..Len(bm.notes) :
    LET n == bm.notes[i]
        hitByPress == n.hit /\ ~n.missed /\ Len(applied[i]) = 1
                      /\ applied[i][1].src = "press"
                      /\ applied[i][1].tier # CHARGEBACK
        chargedBack == ~n.hit /\ ~n.missed /\ Len(applied[i]) = 1
                       /\ applied[i][1].src = "press"
                       /\ applied[i][1].tier = CHARGEBACK
        timedOut == n.missed /\ ~n.hit /\ Len(applied[i]) = 1
                    /\ applied[i][1].src = "sweep"
    IN /\ ~(n.hit /\ n.missed)
       /\ n.hit => n.judged
       /\ n.missed => n.judged
       /\ n.judged => (hitByPress \/ chargedBack \/ timedOut)
       /\ ~n.judged => Len(applied[i]) = 0

\* C33 witness: one note charged back by a press, the other timed out.
C33_ChargedBackAndTimedOut ==
  /\ state = "PLAYING"
  /\ \E i \in 1..Len(bm.notes) :
       bm.notes[i].judged /\ ~bm.notes[i].hit /\ ~bm.notes[i].missed
  /\ \E i \in 1..Len(bm.notes) : bm.notes[i].judged /\ bm.notes[i].missed

\* C34: at the end of every tick totalNotes is the number of active notes
\* with judged = true, the number of notes with hit = true is
\* counts[APPROVED] + counts[PENDING] + counts[DECLINED], and totalNotes is
\* at most the number of active notes.
C34_CountersMatchFlags ==
  /\ scorer.totalNotes = Cardinality({i \in 1..Len(bm.notes) : bm.notes[i].judged})
  /\ Cardinality({i \in 1..Len(bm.notes) : bm.notes[i].hit}) =
       scorer.counts[APPROVED] + scorer.counts[PENDING] + scorer.counts[DECLINED]
  /\ scorer.totalNotes <= Len(bm.notes)

\* C34 witness: a session ended with one note hit and the other not.
C34_ResultsWithOneHit ==
  /\ state = "RESULTS"
  /\ scorer.totalNotes = 2
  /\ Cardinality({i \in 1..Len(bm.notes) : bm.notes[i].hit}) = 1
  /\ scorer.counts[CHARGEBACK] = 1

----------------------------------------------------------------------------
(* Properties of the states other than PLAYING (SpecCalibration: the game  *)
(* with the calibration screen).                                           *)

\* C35: no judgment is applied outside PLAYING: a step taken while the
\* state is TITLE, COUNTDOWN, PAUSED, RESULTS or CALIBRATION, whatever
\* lanes are pressed and however the clock has advanced, makes no addHit
\* call (the scorer is left as it is, or reset by a session start) and
\* marks no note judged; notes do not time out while the game is paused.
C35_NoJudgmentOutsidePlaying ==
  [][state # "PLAYING" =>
       /\ scorer' = scorer \/ scorer' = ScorerReset
       /\ \A i \in 1..Len(bm'.notes) :
            bm'.notes[i].judged =>
              (i <= Len(bm.notes) /\ bm'.notes[i] = bm.notes[i])
       /\ \A i \in 1..Len(applied') :
            Len(applied'[i]) > 0 => (i <= Len(applied) /\ applied'[i] = applied[i])
       /\ state = "PAUSED" =>
            \A i \in 1..Len(bm'.notes) :
              bm'.notes[i].missed => (i <= Len(bm.notes) /\ bm.notes[i].missed)]_vars

\* C35 witness: the game is paused with a note overdue and not judged (the
\* tick that paused did not sweep), and a lane is held.
C35_PausedWithOverdueNote ==
  /\ state = "PAUSED"
  /\ input.held # {}
  /\ \E i \in 1..Len(bm.notes) :
       ~bm.notes[i].judged /\ getCurrentTime(audio) - bm.notes[i].time > TIMING_MISS

----------------------------------------------------------------------------
(* Properties of the end of a session (Spec).                              *)

\* C37: finishTrack takes effect at most once per session: the step that
\* produces the results (the state becomes RESULTS and the overlay is shown
\* with the statistics) is taken from PLAYING with trackFinished false and
\* sets it, trackFinished stays set until the next startCountdown, and the
\* overlay is not shown again while the state is RESULTS; once the state
\* is RESULTS no addHit call is made and the statistics stay as they are
\* until the next session starts.
C37_ResultsProducedOncePerSession ==
  [][/\ (state # "RESULTS" /\ state' = "RESULTS") =>
          /\ state = "PLAYING"
          /\ ~trackFinished /\ trackFinished'
          /\ resultsShown'
          /\ sessions' = sessions
     /\ (trackFinished /\ ~trackFinished') => sessions' = sessions + 1
     /\ state = "RESULTS" =>
          \/ sessions' = sessions + 1
          \/ /\ scorer' = scorer
             /\ getStats(scorer') = getStats(scorer)
             /\ state' = "RESULTS"
             /\ trackFinished'
             /\ resultsShown' => resultsShown]_vars

\* C37 witness: the results of a second session are shown, ticks having run
\* and a lane being held in RESULTS.
C37_SecondResults ==
  /\ state = "RESULTS"
  /\ sessions = 2
  /\ resultsShown
  /\ trackFinished
  /\ scorer.totalNotes = 2
  /\ input.held # {}

----------------------------------------------------------------------------
(* Properties of the derived metrics together (SpecScorer).                *)

\* C39: when at least one note has been judged, getGrade returns D exactly
\* when getRiskLevel returns CRITICAL, and a grade of S or A goes with the
\* risk level LOW.
C39_GradeAgreesWithRisk ==
  (stats.grade # "NONE" /\ stats.totalNotes > 0) =>
    /\ stats.grade = "D" <=> stats.riskLevel = "CRITICAL"
    /\ stats.grade \in {"S", "A"} => stats.riskLevel = "LOW"

\* C39 witness: three chargebacks in ten, a chargeback rate of exactly 0.30
\* and a hit rate of exactly 0.70: neither D nor CRITICAL.
C39_ThreeChargebacksInTen ==
  /\ stats.grade # "NONE"
  /\ stats.totalNotes = 10
  /\ stats.counts["CHARGEBACK"] = 3
  /\ stats.grade = "C"
  /\ stats.riskLevel = "HIGH"

----------------------------------------------------------------------------
(* Properties of the press edges (SpecInput).                              *)

\* The lanes pressed when InputHandler.update ran at the end of the frame
\* before frame k (no key is held before the first).
PressedBefore(k) == IF k = 1 THEN {} ELSE ticks[k - 1].pressed

\* C31: in every frame isLaneJustPressed(lane) is true exactly when the
\* lane is pressed in that frame and was not pressed when update() ran at
\* the end of the frame before; so over consecutive frames that find the
\* lane pressed, the first after a frame that found it released is the only
\* one with a press edge, and judgePress is called for the lane in no frame
\* but that one.
C31_OneEdgePerHold ==
  /\ \A k \in 1..Len(ticks) :
       /\ ticks[k].just = ticks[k].pressed \ PressedBefore(k)
       /\ ticks[k].judged \subseteq ticks[k].just
  /\ \A lane \in Lanes : \A i \in 1..Len(ticks) : \A j \in i..Len(ticks) :
       (/\ lane \notin PressedBefore(i)
        /\ \A k \in i..j : lane \in ticks[k].pressed) =>
          /\ {k \in i..j : lane \in ticks[k].just} = {i}
          /\ {k \in i..j : lane \in ticks[k].judged} \subseteq {i}

\* C31 witness: a lane held over three frames in PLAYING: judgePress was
\* called for it in the first and a note was judged, and in no other.
C31_HeldOverThreeFrames ==
  /\ Len(ticks) >= 3
  /\ \A k \in 1..3 : 0 \in ticks[k].pressed /\ ticks[k].state = "PLAYING"
  /\ 0 \in ticks[1].judged
  /\ 0 \notin ticks[2].just /\ 0 \notin ticks[3].just
  /\ scorer.totalNotes >= 1
  /\ \E i \in 1..Len(applied) : Len(applied[i]) = 1 /\ applied[i][1].src = "press"

\* C40: a lane key pressed while the game is PAUSED and held since is not
\* handed to judgePress in any PLAYING frame: no press edge of the lane is
\* processed until the lane has been released and pressed again.
C40_PausedPressNotJudged ==
  \A k \in 1..Len(ticks) :
    ticks[k].state = "PLAYING" => ticks[k].judged \cap ticks[k].pausedHolds = {}

----------------------------------------------------------------------------
(* Properties of the end of a session, the notes in either order in the    *)
(* beatmap data (SpecAnyOrder).                                            *)

\* C36: when a session has reached RESULTS because isComplete became
\* true, every active note is judged and totalNotes is the number of active
\* notes, whatever the order of the notes in the beatmap data.
C36_CompleteMeansAllJudged ==
  (state = "RESULTS" /\ isComplete(bm.notes, getCurrentTime(audio))) =>
    /\ \A i \in 1..Len(bm.notes) : bm.notes[i].judged
    /\ scorer.totalNotes = Len(bm.notes)

----------------------------------------------------------------------------
(* Properties of progress (SpecAnyOrderFair).                              *)

\* C32: with the frames running in PLAYING and the clock advancing, every
\* active note is eventually judged: a note that is not judged while the
\* game plays is judged later, by a press or by the sweep; none stays
\* unjudged for ever.
C32_EveryNoteEventuallyJudged ==
  \A i \in 1..2 :
    (state = "PLAYING" /\ i <= Len(bm.notes) /\ ~bm.notes[i].judged)
      ~> (i <= Len(bm.notes) /\ bm.notes[i].judged)

====
